---------------------------- MODULE Spec2Model ----------------------------
(***************************************************************************)
(* A model of the LiDAR / camera fusing processor of the camera_viz crate: *)
(* the frame decoders (pcd_to_points, image_to_mat), the point projection, *)
(* the rectangle index and the cache that State::map_msg keeps.            *)
(*                                                                         *)
(* Representation.                                                         *)
(*   - A byte is a number in 0..255, a buffer a sequence of bytes.         *)
(*   - An f32 is its bit pattern, written as the four bytes of the pattern *)
(*     from the most significant to the least: f32::from_le_bytes reverses *)
(*     the order of the four bytes it is given.                            *)
(*   - Option<T> is a sequence of length at most one: None is << >> and    *)
(*     Some(v) is <<v>>.                                                   *)
(*   - A Result is a record [tag, val, err] with tag "Ok" or "Err"; a      *)
(*     panic of the code (an out-of-range slice) has tag "Panic".          *)
(*   - An ARef element handle (ArcPoint, ArcObj) is the index into its     *)
(*     owning vector together with the element it refers to; a handle to a *)
(*     whole vector is the vector, which is immutable behind the handle.   *)
(***************************************************************************)
EXTENDS Integers, Sequences, FiniteSets, TLC

VARIABLES
    cache,          \* State.cache: the Cache of the fusing worker
    in_msg,         \* the last in_msg the worker gave to map_msg
    result,         \* what the last call of map_msg returned
    pcd,            \* pcd_to_points: the PointCloud2 it is applied to
    points_result,  \* pcd_to_points: what it returned
    image,          \* image_to_mat: the Image it is applied to
    mat_result,     \* image_to_mat: what it returned
    find_query,     \* RectRTree::find: the detections indexed and the pixel
    find_result,    \* RectRTree::find: what it returned
    proj_query,     \* PointProjector::map: the projector and the points
    proj_result,    \* PointProjector::map: the pairs it yielded
    stream_ended,   \* start: input_stream is over, forward_future is done
    forward_item,   \* start: the message forward_future took and has yet to send
    input_ch,       \* start: the messages in the channel of input_tx
    worker_pc,      \* start: where the loop of handle_future stands
    worker_out,     \* start: the out_msgs the loop has yet to send
    output_ch,      \* start: the messages in the channel of output_tx
    consumer,       \* start: what the owner of output_stream is doing
    enqueued,       \* history: the messages put into the input channel
    processed,      \* history: their numbers, as the worker received them
    emitted,        \* history: the messages put into the output channel
    delivered,      \* history: the messages output_stream has yielded
    fuse_stream,    \* split: the messages the stream has yet to yield
    split_pc,       \* split: where the loop of the future stands
    opencv_ch,      \* split: the messages in the channel of opencv_tx
    kiss3d_ch,      \* split: the messages in the channel of kiss3d_tx
    opencv_rx,      \* split: whether opencv_rx is held or dropped
    kiss3d_rx,      \* split: whether kiss3d_rx is held or dropped
    opencv_got,     \* history: the messages taken from opencv_rx
    kiss3d_got,     \* history: the messages taken from kiss3d_rx
    heap,           \* ARef: the buffers allocated, in the order of ARef::new
    refs,           \* ARef: the buffer each slot of the cache refers to
    held,           \* history: the messages built, with what they held then
    sources,        \* select_all: the messages waiting in each subscription
    ready,          \* select_all: the streams woken, in the order of waking
    arrived,        \* history: the messages in the order they arrived
    merged,         \* history: the messages input_stream has yielded
    meter_count,    \* RateMeter.count
    reported,       \* history: the counts rate_stream has taken
    bumped,         \* history: the number of calls of bump
    yolo,           \* Server::recv: the YoloResult received
    boxes_result    \* YoloResult::boxes: what it returned

\* The variables of the decoders on their own.
decoder_vars == <<pcd, points_result, image, mat_result>>

\* The variables of RectRTree::find and PointProjector::map on their own.
query_vars == <<find_query, find_result, proj_query, proj_result>>

\* The variables of the channels and futures of start.
pipe_vars ==
    <<stream_ended, forward_item, input_ch, worker_pc, worker_out, output_ch,
      consumer, enqueued, processed, emitted, delivered>>

\* The variables of split.
split_vars ==
    <<fuse_stream, split_pc, opencv_ch, kiss3d_ch, opencv_rx, kiss3d_rx,
      opencv_got, kiss3d_got>>

\* The variables of the buffers behind the ARef handles.
heap_vars == <<heap, refs, held>>

\* The variables of the merged input stream.
merge_vars == <<sources, ready, arrived, merged>>

\* The variables of a RateMeter.
meter_vars == <<meter_count, reported, bumped>>

\* The variables of the server of the Kneron bounding boxes.
yolo_vars == <<yolo, boxes_result>>

vars ==
    <<cache, in_msg, result, decoder_vars, query_vars, pipe_vars, split_vars,
      heap_vars, merge_vars, meter_vars, yolo_vars>>

(***************************************************************************)
(* Bounds of the model.                                                    *)
(***************************************************************************)
\* The longest point cloud, in points.
MaxPoints == 2

(***************************************************************************)
(* Option and Result.                                                      *)
(***************************************************************************)
None == << >>

Some(v) == <<v>>

Ok(v) == [tag |-> "Ok", val |-> v, err |-> ""]

Err(e) == [tag |-> "Err", val |-> None, err |-> e]

Panic(e) == [tag |-> "Panic", val |-> None, err |-> e]

NotCalled == [tag |-> "NotCalled", val |-> None, err |-> ""]

(***************************************************************************)
(* Sequence helpers.                                                       *)
(***************************************************************************)
Min(a, b) == IF a <= b THEN a ELSE b

\* The number of chunks slice::chunks(n) yields: the last one may be short.
NumChunks(len, n) == (len + n - 1) \div n

\* <[u8]>::chunks(n), n > 0.
Chunks(data, n) ==
    [i \in 1..NumChunks(Len(data), n) |->
        SubSeq(data, (i - 1) * n + 1, Min(i * n, Len(data)))]

\* <[u8]>::chunks_exact(n), n > 0: a short tail is left out.
ChunksExact(data, n) ==
    [i \in 1..(Len(data) \div n) |-> SubSeq(data, (i - 1) * n + 1, i * n)]

\* The indices of s, in order.
Indices(s) == [i \in 1..Len(s) |-> i]

\* A division that rounds towards zero, as a cast of a float to i32 does.
TruncDiv(a, b) ==
    IF (a >= 0) = (b > 0) \/ a = 0
    THEN (IF a >= 0 THEN a ELSE 0 - a) \div (IF b > 0 THEN b ELSE 0 - b)
    ELSE 0 - ((IF a >= 0 THEN a ELSE 0 - a) \div (IF b > 0 THEN b ELSE 0 - b))

(***************************************************************************)
(* f32.                                                                    *)
(***************************************************************************)
\* A faulty f32::from_le_bytes: the bytes read in big-endian order.
f32_from_be_bytes(bytes) == <<bytes[1], bytes[2], bytes[3], bytes[4]>>

\* f32::from_le_bytes: the first byte given is the least significant.
f32_from_le_bytes(bytes) == <<bytes[4], bytes[3], bytes[2], bytes[1]>>

\* The parts of an IEEE-754 binary32 pattern.
F32Sign(f) == f[1] \div 128

F32Exponent(f) == (f[1] % 128) * 2 + f[2] \div 128

F32Mantissa(f) == (f[2] % 128) * 65536 + f[3] * 256 + f[4]

RECURSIVE Pow2Rec(_)
Pow2Rec(n) == IF n = 0 THEN 1 ELSE 2 * Pow2Rec(n - 1)

\* The powers of two an f32 mantissa needs.
Pow2Table == [n \in 0..23 |-> Pow2Rec(n)]

Pow2(n) == Pow2Table[n]

\* The magnitude of an f32 with biased exponent e and mantissa m that holds
\* a whole number below 2^24 (the coordinates of the model are such f32s; a
\* fraction is cut off).
F32Magnitude(e, m) ==
    IF e < 127 \/ e > 150 THEN 0 ELSE (8388608 + m) \div Pow2(150 - e)

F32Signed(sign, magnitude) == IF sign = 1 THEN 0 - magnitude ELSE magnitude

F32Value(f) ==
    F32Signed(F32Sign(f), F32Magnitude(F32Exponent(f), F32Mantissa(f)))

(***************************************************************************)
(* pcd_to_points.                                                          *)
(***************************************************************************)
\* The closure check_field: an f32 field (datatype 7) holding one value.
check_field(field) == field.datatype = 7 /\ field.count = 1

\* One chunk of at least 16 bytes to a Point.
point_from_bytes(point_bytes) ==
    [position |-> << f32_from_le_bytes(SubSeq(point_bytes, 1, 4)),
                     f32_from_le_bytes(SubSeq(point_bytes, 5, 8)),
                     f32_from_le_bytes(SubSeq(point_bytes, 9, 12)) >>,
     intensity |-> f32_from_le_bytes(SubSeq(point_bytes, 13, 16))]

\* The map over the chunks of the data.  &point_bytes[12..16] and the
\* slices before it index out of range on a chunk of fewer than 16 bytes.
points_of_chunks(chunks) ==
    IF \E i \in 1..Len(chunks) : Len(chunks[i]) < 16
    THEN Panic("range end index out of range for slice")
    ELSE Ok([i \in 1..Len(chunks) |-> point_from_bytes(chunks[i])])

\* A faulty pcd_checked: the datatype and count of the fields go unchecked.
pcd_checked_any_type(msg, fx, fy, fz, fi) ==
    IF ~(fx.name = "x" /\ fy.name = "y" /\ fz.name = "z"
         /\ fi.name = "intensity")
    THEN Err("incorrect field name")
    ELSE IF msg.point_step < 16
    THEN Err("incorrect point_step")
    ELSE points_of_chunks(Chunks(msg.data, msg.point_step))

\* A faulty pcd_checked: only records of exactly 16 bytes are taken.
pcd_checked_exact_step(msg, fx, fy, fz, fi) ==
    IF ~(fx.name = "x" /\ fy.name = "y" /\ fz.name = "z"
         /\ fi.name = "intensity")
    THEN Err("incorrect field name")
    ELSE IF ~(check_field(fx) /\ check_field(fy) /\ check_field(fz)
              /\ check_field(fi))
    THEN Err("non-f64 or non-single-value values")
    ELSE IF msg.point_step # 16
    THEN Err("incorrect point_step")
    ELSE points_of_chunks(Chunks(msg.data, msg.point_step))

\* The checks on the first four fields, then on point_step, then the map.
pcd_checked(msg, fx, fy, fz, fi) ==
    IF ~(fx.name = "x" /\ fy.name = "y" /\ fz.name = "z"
         /\ fi.name = "intensity")
    THEN Err("incorrect field name")
    ELSE IF ~(check_field(fx) /\ check_field(fy) /\ check_field(fz)
              /\ check_field(fi))
    THEN Err("non-f64 or non-single-value values")
    ELSE IF msg.point_step < 16
    THEN Err("incorrect point_step")
    ELSE points_of_chunks(Chunks(msg.data, msg.point_step))

pcd_to_points(msg) ==
    IF Len(msg.fields) < 4
    THEN Err("less then 3 fields")
    ELSE pcd_checked(msg, msg.fields[1], msg.fields[2], msg.fields[3],
                     msg.fields[4])


(***************************************************************************)
(* image_to_mat.                                                           *)
(***************************************************************************)
\* u8 saturation of a rounded value.
ClampU8(v) == IF v < 0 THEN 0 ELSE IF v > 255 THEN 255 ELSE v

\* A rounding division by 1000 of a value that may be negative.
Round1000(v) == (v + 500) \div 1000

\* RGBConvert::<u8>::new(Range::Limited, MatrixCoefficients::BT709).to_rgb:
\* the BT.709 limited-range matrix, in thousandths.
ycbcr_to_rgb(y, cb, cr) ==
    << ClampU8(Round1000(1164 * (y - 16) + 1793 * (cr - 128))),
       ClampU8(Round1000(1164 * (y - 16) - 213 * (cb - 128) - 533 * (cr - 128))),
       ClampU8(Round1000(1164 * (y - 16) + 2112 * (cb - 128))) >>

\* Mat::new_rows_cols_with_default(height, width, CV_8UC3, Scalar::all(0.0))
\* with the pixels px[pidx] written by at_2d_mut(row, col), where
\* col = pidx % width and row = pidx / width.  px maps the pidx written
\* (from 0) to the Vec3b written there.
MatOf(height, width, px) ==
    [rows |-> height, cols |-> width,
     data |-> [k \in 1..(height * width) |->
                 IF \E pidx \in DOMAIN px :
                        (pidx \div width) * width + (pidx % width) = k - 1
                 THEN px[CHOOSE pidx \in DOMAIN px :
                        (pidx \div width) * width + (pidx % width) = k - 1]
                 ELSE <<0, 0, 0>>]]

\* at_2d_mut(row, col).unwrap() fails on a row outside the Mat.
WritesInside(height, width, px) ==
    \A pidx \in DOMAIN px : pidx \div width < height

\* VecN([b, g, r]) of an [r, g, b].
Bgr(rgb) == <<rgb[3], rgb[2], rgb[1]>>

\* The arm "BGR8": chunk pidx is the pixel pidx as it stands.
PixelsOfBgrChunks(chunks) ==
    [pidx \in 0..(Len(chunks) - 1) |-> chunks[pidx + 1]]

PixelsBGR8(data) == PixelsOfBgrChunks(ChunksExact(data, 3))

\* A faulty arm "RGB8": the chunk is taken as it stands.
PixelsOfRgbChunks_as_is(chunks) ==
    [pidx \in 0..(Len(chunks) - 1) |-> chunks[pidx + 1]]

\* The arm "RGB8": chunk pidx is [r, g, b] and the pixel is [b, g, r].
PixelsOfRgbChunks(chunks) ==
    [pidx \in 0..(Len(chunks) - 1) |-> Bgr(chunks[pidx + 1])]

PixelsRGB8(data) == PixelsOfRgbChunks(ChunksExact(data, 3))

\* One pixel of a chunk [cb, y1, cr, y2]: the first with y1, the second
\* with y2, both with the chunk's cb and cr.
PixelOfUyvyChunk(c, second) ==
    Bgr(ycbcr_to_rgb(IF second THEN c[4] ELSE c[2], c[1], c[3]))

\* The arm "UYVY": chunk chunk_idx sets the pixels 2 * chunk_idx and
\* 2 * chunk_idx + 1.
PixelsOfUyvyChunks(chunks) ==
    [pidx \in 0..(2 * Len(chunks) - 1) |->
        PixelOfUyvyChunk(chunks[(pidx \div 2) + 1], pidx % 2 = 1)]

PixelsUYVY(data) == PixelsOfUyvyChunks(ChunksExact(data, 4))

\* The body shared by the three arms of the match on the encoding.
\* A faulty decode_pixels: the length of the data goes unchecked.
decode_pixels_any_len(img, pixel_step, px) ==
    IF img.step # img.width * pixel_step
    THEN Err("ensure row_step == width * pixel_step")
    ELSE IF ~WritesInside(img.height, img.width, px)
    THEN Panic("at_2d_mut")
    ELSE Ok(MatOf(img.height, img.width, px))

decode_pixels(img, pixel_step, px) ==
    IF img.step # img.width * pixel_step
    THEN Err("ensure row_step == width * pixel_step")
    ELSE IF Len(img.data) # img.step * img.height
    THEN Err("ensure data.len() == row_step * height")
    ELSE IF ~WritesInside(img.height, img.width, px)
    THEN Panic("at_2d_mut")
    ELSE Ok(MatOf(img.height, img.width, px))

image_to_mat(img) ==
    IF img.is_bigendian # 0
    THEN Err("ensure !is_bigendian")
    ELSE IF img.encoding = "BGR8"
    THEN decode_pixels(img, 3, PixelsBGR8(img.data))
    ELSE IF img.encoding = "RGB8"
    THEN decode_pixels(img, 3, PixelsRGB8(img.data))
    ELSE IF img.encoding = "UYVY"
    THEN decode_pixels(img, 2, PixelsUYVY(img.data))
    ELSE Err("unsupported image format")

\* opencv::core::rotate(&mat, &mut out, ROTATE_180).
rotate_180(mat) ==
    [rows |-> mat.rows, cols |-> mat.cols,
     data |-> [k \in 1..Len(mat.data) |-> mat.data[Len(mat.data) + 1 - k]]]

(***************************************************************************)
(* The configuration State::new reads: two cameras with an identity        *)
(* rotation, no lens distortion and whole-numbered intrinsics, so that the *)
(* projection of the model's points is exact.                              *)
(***************************************************************************)
\* PointProjector { height, width, camera_params } of the Kneron camera.
kneron_projector ==
    [height |-> 8, width |-> 8,
     camera_params |-> [pose |-> <<0, 0, 0>>, fx |-> 2, fy |-> 2,
                        cx |-> 4, cy |-> 4]]

\* PointProjector { height, width, camera_params } of the Otobrite camera.
otobrite_projector ==
    [height |-> 1, width |-> 2,
     camera_params |-> [pose |-> <<0, 0, 0>>, fx |-> 2, fy |-> 2,
                        cx |-> 1, cy |-> 0]]

\* config.kneron_det_hw: the size of the frame the detector worked on.
kneron_det_hw == <<4, 4>>

\* config.otobrite_image_rotate_180.
otobrite_rotate_180 == TRUE

(***************************************************************************)
(* PointProjector::map.                                                    *)
(***************************************************************************)
\* The position of a Point as numbers.
PositionValue(point) ==
    << F32Value(point.position[1]), F32Value(point.position[2]),
       F32Value(point.position[3]) >>

\* pose * p, for a pose that only translates.
camera_point(params, p) ==
    <<p[1] + params.pose[1], p[2] + params.pose[2], p[3] + params.pose[3]>>

\* A faulty passes_range_filter: the depth is that of the LiDAR frame.
passes_range_filter_lidar_frame(params, p) ==
    IF p[1] * p[1] + p[2] * p[2] + p[3] * p[3] <= 1 THEN FALSE
    ELSE p[3] > 1

\* The first filter, on the position p of a point: it is more than 1.0
\* away from the LiDAR and more than 1.0 in front of the camera.
passes_range_filter(params, p) ==
    IF p[1] * p[1] + p[2] * p[2] + p[3] * p[3] <= 1 THEN FALSE
    ELSE camera_point(params, p)[3] > 1

\* The pinhole projection of a point c of the camera frame, no distortion.
pinhole(params, c) ==
    << TruncDiv(params.fx * c[1], c[3]) + params.cx,
       TruncDiv(params.fy * c[2], c[3]) + params.cy >>

\* calib3d::project_points on one position.  It is applied only to points
\* with a camera-frame z above 1.
project_point(params, p) == pinhole(params, camera_point(params, p))

\* The second filter: width_range.contains(x) && height_range.contains(y),
\* both ranges closed.
in_image(projector, img_point) ==
    /\ 0 <= img_point[1] /\ img_point[1] <= projector.width
    /\ 0 <= img_point[2] /\ img_point[2] <= projector.height

\* points.clone().map(|vec| &vec[idx]): a handle to one element.
ElemRef(vec, idx) == [idx |-> idx, elem |-> vec[idx]]

\* The indices of the points that pass the first filter.
filtered_indices(params, points) ==
    SelectSeq(Indices(points),
              LAMBDA idx : passes_range_filter(params, PositionValue(points[idx])))

\* image_points: the projections of the points kept, in their order.
projected(params, points, point_indices) ==
    [k \in 1..Len(point_indices) |->
        project_point(params, PositionValue(points[point_indices[k]]))]

\* A faulty izip: each index is paired with the projection after its own.
izip_shifted(point_indices, image_points) ==
    [k \in 1..Min(Len(point_indices), Len(image_points)) |->
        <<point_indices[k], image_points[(k % Len(image_points)) + 1]>>]

\* izip!(point_indices, image_points).
izip(point_indices, image_points) ==
    [k \in 1..Min(Len(point_indices), Len(image_points)) |->
        <<point_indices[k], image_points[k]>>]

\* The pairs of the indices kept with their projections.
index_pairs(params, points, point_indices) ==
    izip(point_indices, projected(params, points, point_indices))

\* The pairs inside the image, each with the handle to its point.
pairs_in_image(projector, points, point_pairs) ==
    [k \in 1..Len(point_pairs) |->
        [pcd_point |-> ElemRef(points, point_pairs[k][1]),
         img_point |-> point_pairs[k][2]]]

PointProjector_map(projector, points) ==
    pairs_in_image(projector, points,
        SelectSeq(index_pairs(projector.camera_params, points,
                              filtered_indices(projector.camera_params, points)),
                  LAMBDA pair : in_image(projector, pair[2])))

(***************************************************************************)
(* RectRTree.                                                              *)
(***************************************************************************)
\* Entry::envelope: AABB::from_corners(lt, rb) with lt = (x - width / 2,
\* y - height / 2) and rb = (x + width / 2, y + height / 2), in halves of a
\* pixel so that the corners stay whole numbers.
Max(a, b) == IF a >= b THEN a ELSE b

\* AABB::from_corners: the corners put in order.
from_corners(lt, rb) ==
    [lower |-> <<Min(lt[1], rb[1]), Min(lt[2], rb[2])>>,
     upper |-> <<Max(lt[1], rb[1]), Max(lt[2], rb[2])>>]

envelope(rect) ==
    from_corners(<<2 * rect.x - rect.width, 2 * rect.y - rect.height>>,
                 <<2 * rect.x + rect.width, 2 * rect.y + rect.height>>)

\* Whether an AABB in half pixels holds a point in pixels, borders included.
aabb_contains(aabb, point) ==
    /\ aabb.lower[1] <= 2 * point[1] /\ 2 * point[1] <= aabb.upper[1]
    /\ aabb.lower[2] <= 2 * point[2] /\ 2 * point[2] <= aabb.upper[2]

\* The containment test of locate_at_point.
envelope_contains(rect, point) == aabb_contains(envelope(rect), point)

\* FromIterator for RectRTree: one Entry per element handle, bulk-loaded.
\* For the few entries of the model the tree is one leaf in iteration order.
RectRTree_from_iter(objects) ==
    [rtree |-> [i \in 1..Len(objects) |-> [rect |-> ElemRef(objects, i)]]]

\* RectRTree::find: the first entry whose envelope holds the point.
first_hit(hits) == IF hits = << >> THEN None ELSE Some(hits[1].rect)

find(index, point) ==
    first_hit(SelectSeq(index.rtree,
                        LAMBDA entry : envelope_contains(entry.rect.elem.rect, point)))

(***************************************************************************)
(* State: the cache and the updates of it.                                 *)
(***************************************************************************)
\* Cache::default().
EmptyCache ==
    [points |-> None, otobrite_image |-> None, kneron_bboxes |-> None,
     otobrite_assocs |-> None, kneron_assocs |-> None]

\* kneron_scale_hw = [image_h / det_h, image_w / det_w], each kept as the
\* pair <<numerator, denominator>>.
kneron_scale_hw ==
    << <<kneron_projector.height, kneron_det_hw[1]>>,
       <<kneron_projector.width, kneron_det_hw[2]>> >>

\* The Rect of a bounding box, scaled to the image.  The casts `as i32`
\* cut the fraction off.
rect_of_bbox(bbox, scale_h, scale_w) ==
    [x |-> TruncDiv((2 * bbox.center.x - bbox.size_x) * scale_w[1], 2 * scale_w[2]),
     y |-> TruncDiv((2 * bbox.center.y - bbox.size_y) * scale_h[1], 2 * scale_h[2]),
     width |-> TruncDiv(bbox.size_x * scale_w[1], scale_w[2]),
     height |-> TruncDiv(bbox.size_y * scale_h[1], scale_h[2])]

\* The closure of update_kneron_det: one Detection2D to an Object.
object_of_detection(det) ==
    [class_id |-> IF det.results = << >> THEN None ELSE Some(det.results[1]),
     rect |-> rect_of_bbox(det.bbox, kneron_scale_hw[1], kneron_scale_hw[2])]

Association(pair, object) ==
    [pcd_point |-> pair.pcd_point, img_point |-> pair.img_point,
     object |-> object]

\* The associations of the Otobrite camera: no objects.
otobrite_assocs_of(pairs) ==
    [k \in 1..Len(pairs) |-> Association(pairs[k], None)]

\* State::update_otobrite_assocs.
update_otobrite_assocs(c) ==
    IF c.points = None THEN c
    ELSE [c EXCEPT !.otobrite_assocs =
            Some(otobrite_assocs_of(
                    PointProjector_map(otobrite_projector, c.points[1])))]

\* The match on cache.kneron_bboxes of update_kneron_assocs.
kneron_assocs_of(kneron_bboxes, pairs) ==
    IF kneron_bboxes # None
    THEN [k \in 1..Len(pairs) |->
            Association(pairs[k], find(kneron_bboxes[1].index, pairs[k].img_point))]
    ELSE [k \in 1..Len(pairs) |-> Association(pairs[k], None)]

\* A faulty update_kneron_assocs: the list lands in the slot of the other
\* camera.
update_kneron_assocs_misplaced(c) ==
    IF c.points = None THEN c
    ELSE [c EXCEPT !.otobrite_assocs =
            Some(kneron_assocs_of(c.kneron_bboxes,
                    PointProjector_map(kneron_projector, c.points[1])))]

\* A faulty update_kneron_assocs: without a point cloud it stores an empty
\* list.
update_kneron_assocs_eager(c) ==
    IF c.points = None THEN [c EXCEPT !.kneron_assocs = Some(<< >>)]
    ELSE [c EXCEPT !.kneron_assocs =
            Some(kneron_assocs_of(c.kneron_bboxes,
                    PointProjector_map(kneron_projector, c.points[1])))]

\* A faulty update_kneron_assocs: without a detection set it stores no list.
update_kneron_assocs_needs_bboxes(c) ==
    IF c.points = None \/ c.kneron_bboxes = None THEN c
    ELSE [c EXCEPT !.kneron_assocs =
            Some(kneron_assocs_of(c.kneron_bboxes,
                    PointProjector_map(kneron_projector, c.points[1])))]

\* State::update_kneron_assocs.
update_kneron_assocs(c) ==
    IF c.points = None THEN c
    ELSE [c EXCEPT !.kneron_assocs =
            Some(kneron_assocs_of(c.kneron_bboxes,
                    PointProjector_map(kneron_projector, c.points[1])))]

BBoxIndex(objects) ==
    [objects |-> objects, index |-> RectRTree_from_iter(objects)]

\* A faulty update_kneron_det: the associations are not computed again.
update_kneron_det_stale(c, det) ==
    [c EXCEPT !.kneron_bboxes =
        Some(BBoxIndex([i \in 1..Len(det.detections) |->
                          object_of_detection(det.detections[i])]))]

\* A faulty update_kneron_det: the detections are added to those cached.
update_kneron_det_merged(c, det) ==
    update_kneron_assocs(
        [c EXCEPT !.kneron_bboxes =
            Some(BBoxIndex((IF c.kneron_bboxes = None THEN << >>
                            ELSE c.kneron_bboxes[1].objects)
                           \o [i \in 1..Len(det.detections) |->
                                 object_of_detection(det.detections[i])]))])

\* State::update_kneron_det: it cannot fail.
update_kneron_det(c, det) ==
    update_kneron_assocs(
        [c EXCEPT !.kneron_bboxes =
            Some(BBoxIndex([i \in 1..Len(det.detections) |->
                              object_of_detection(det.detections[i])]))])

\* An update that failed: the error and the cache as it was left.
Failed(r, c) == [tag |-> r.tag, err |-> r.err, cache |-> c]

Updated(c) == [tag |-> "Ok", err |-> "", cache |-> c]

\* The rotation the configuration asks for.
oriented(mat) == IF otobrite_rotate_180 THEN rotate_180(mat) ELSE mat

\* A faulty store_otobrite_image: the cache is built anew around the image.
store_otobrite_image_fresh(c, decoded) ==
    IF decoded.tag # "Ok" THEN Failed(decoded, c)
    ELSE Updated([points |-> None,
                  otobrite_image |-> Some(oriented(decoded.val)),
                  kneron_bboxes |-> None, otobrite_assocs |-> None,
                  kneron_assocs |-> None])

\* update_otobrite_image after the size check, with the decoded image.
store_otobrite_image(c, decoded) ==
    IF decoded.tag # "Ok" THEN Failed(decoded, c)
    ELSE Updated([c EXCEPT !.otobrite_image = Some(oriented(decoded.val))])

\* A faulty update_otobrite_image: the size of the image goes unchecked.
update_otobrite_image_any_size(c, img) ==
    store_otobrite_image(c, image_to_mat(img))

\* State::update_otobrite_image: Result<()> with the cache it leaves.  The
\* expected sizes are compared after a cast to u32, which changes no size
\* below 2^32.
update_otobrite_image(c, img) ==
    IF ~(otobrite_projector.height = img.height
         /\ otobrite_projector.width = img.width)
    THEN Failed(Err("Expect sized image"), c)
    ELSE store_otobrite_image(c, image_to_mat(img))

\* A faulty store_points: the points are added to those of the cache.
store_points_appended(c, decoded) ==
    IF decoded.tag # "Ok" THEN Failed(decoded, c)
    ELSE Updated(update_otobrite_assocs(
                    update_kneron_assocs(
                        [c EXCEPT !.points =
                            Some((IF c.points = None THEN << >> ELSE c.points[1])
                                 \o decoded.val)])))

\* update_pcd with the decoded points.
store_points(c, decoded) ==
    IF decoded.tag # "Ok" THEN Failed(decoded, c)
    ELSE Updated(update_otobrite_assocs(
                    update_kneron_assocs([c EXCEPT !.points = Some(decoded.val)])))

\* State::update_pcd: Result<()> with the cache it leaves.
update_pcd(c, msg) == store_points(c, pcd_to_points(msg))

(***************************************************************************)
(* State::map_msg.                                                         *)
(***************************************************************************)
\* The Kiss3dMessage of the cache, if it holds a point cloud.
kiss3d_msg(c) ==
    IF c.points = None THEN << >>
    ELSE << [kind |-> "Kiss3d", points |-> c.points[1],
             kneron_assocs |-> c.kneron_assocs] >>

kneron_msg(c) ==
    [kind |-> "Kneron",
     objects |-> IF c.kneron_bboxes = None THEN None
                 ELSE Some(c.kneron_bboxes[1].objects),
     assocs |-> c.kneron_assocs]

otobrite_msg(c) ==
    [kind |-> "Otobrite", image |-> c.otobrite_image,
     assocs |-> c.otobrite_assocs]

\* What map_msg returns and leaves: the Result, the Vec of output messages
\* of an Ok, and the cache afterwards.
Mapped(r, out_msgs) ==
    [tag |-> r.tag, err |-> r.err, cache |-> r.cache,
     out_msgs |-> IF r.tag # "Ok" THEN << >> ELSE out_msgs]

\* A faulty pcd_arm: the messages of the cameras come before kiss3d_msg.
pcd_arm_cameras_first(r) ==
    Mapped(r, <<kneron_msg(r.cache), otobrite_msg(r.cache)>> \o kiss3d_msg(r.cache))

\* The arms of the match on in_msg, each after its update r.
pcd_arm(r) ==
    Mapped(r, kiss3d_msg(r.cache) \o <<kneron_msg(r.cache), otobrite_msg(r.cache)>>)

image_arm(r) == Mapped(r, <<otobrite_msg(r.cache)>>)

\* A faulty bbox_arm: the message of the Otobrite camera is sent as well.
bbox_arm_all(r) ==
    Mapped(r, kiss3d_msg(r.cache) \o <<kneron_msg(r.cache), otobrite_msg(r.cache)>>)

bbox_arm(r) == Mapped(r, kiss3d_msg(r.cache) \o <<kneron_msg(r.cache)>>)

map_msg(c, m) ==
    IF m.kind = "PointCloud2" THEN pcd_arm(update_pcd(c, m.msg))
    ELSE IF m.kind = "OtobriteImage" THEN image_arm(update_otobrite_image(c, m.msg))
    ELSE bbox_arm(Updated(update_kneron_det(c, m.msg)))

(***************************************************************************)
(* Input messages.                                                         *)
(***************************************************************************)
\* f32::to_le_bytes, the inverse of f32::from_le_bytes.
f32_to_le_bytes(f) == <<f[4], f[3], f[2], f[1]>>

RECURSIVE Log2Floor(_)
Log2Floor(a) == IF a < 2 THEN 0 ELSE 1 + Log2Floor(a \div 2)

\* The f32 that holds the whole number n, |n| < 2^24.
IntToF32(n) ==
    IF n = 0 THEN <<0, 0, 0, 0>>
    ELSE
    LET a == IF n < 0 THEN 0 - n ELSE n
        e == Log2Floor(a)
        exp == 127 + e
        m == (a - Pow2(e)) * Pow2(23 - e)
    IN  << (IF n < 0 THEN 128 ELSE 0) + exp \div 2,
           (exp % 2) * 128 + m \div 65536,
           (m \div 256) % 256,
           m % 256 >>

MkPoint(x, y, z, intensity) ==
    [position |-> <<IntToF32(x), IntToF32(y), IntToF32(z)>>,
     intensity |-> IntToF32(intensity)]

\* Seen by both cameras; in the Kneron image at (4, 4).
PointA == MkPoint(0, 0, 2, 1)

\* Seen by the Kneron camera only, at (6, 4).
PointB == MkPoint(2, 0, 2, 2)

\* Behind both cameras.
PointC == MkPoint(0, 0, -2, 3)

\* The points the point lists are made of.
PointCandidates == {PointA, PointB}

\* The point lists of at most n points.
PointLists(n) == UNION {[1..k -> PointCandidates] : k \in 0..n}

\* A record of point_step >= 16 bytes: x, y, z, intensity, then padding.
EncodePoint(point, point_step) ==
    f32_to_le_bytes(point.position[1]) \o f32_to_le_bytes(point.position[2])
    \o f32_to_le_bytes(point.position[3]) \o f32_to_le_bytes(point.intensity)
    \o [k \in 1..(point_step - 16) |-> 170]

RECURSIVE EncodePoints(_, _)
EncodePoints(points, point_step) ==
    IF points = << >> THEN << >>
    ELSE EncodePoint(Head(points), point_step)
         \o EncodePoints(Tail(points), point_step)

Field(name, datatype, count) ==
    [name |-> name, datatype |-> datatype, count |-> count]

\* The schema pcd_to_points accepts.
XyziFields ==
    <<Field("x", 7, 1), Field("y", 7, 1), Field("z", 7, 1),
      Field("intensity", 7, 1)>>

\* Schemas it does not accept.
BadFields ==
    { << >>,
      <<Field("x", 7, 1), Field("y", 7, 1), Field("z", 7, 1)>>,
      <<Field("x", 7, 1), Field("y", 7, 1), Field("z", 7, 1),
        Field("ring", 7, 1), Field("intensity", 7, 1)>>,
      <<Field("x", 7, 1), Field("y", 7, 1), Field("z", 7, 1),
        Field("intensity", 2, 1)>>,
      <<Field("x", 7, 0), Field("y", 7, 1), Field("z", 7, 1),
        Field("intensity", 7, 1)>>,
      <<Field("x", 7, 1), Field("y", 7, 1), Field("z", 7, 1), Field("i", 7, 1)>>,
      <<Field("y", 7, 1), Field("x", 7, 1), Field("z", 7, 1),
        Field("intensity", 7, 1)>>,
      <<Field("x", 7, 1), Field("y", 7, 1), Field("z", 8, 1),
        Field("intensity", 7, 1)>>,
      <<Field("x", 7, 1), Field("y", 7, 2), Field("z", 7, 1),
        Field("intensity", 7, 1)>> }

PointCloud2(fields, point_step, data) ==
    [fields |-> fields, point_step |-> point_step, data |-> data]

\* The point clouds sent to the worker: every point list in records of 16
\* bytes, one with a point behind the cameras and one in records of 20, the
\* malformed schemas and strides, and a buffer that ends in the middle of a
\* record.
WellFormedPcds ==
    {PointCloud2(XyziFields, 16, EncodePoints(pl, 16)) : pl \in PointLists(MaxPoints)}
    \cup {PointCloud2(XyziFields, 16, EncodePoints(<<PointC, PointA>>, 16)),
          PointCloud2(XyziFields, 20, EncodePoints(<<PointB, PointA>>, 20))}

MalformedPcds ==
    {PointCloud2(f, 16, EncodePoints(<<PointA>>, 16)) : f \in BadFields}
    \cup {PointCloud2(XyziFields, step, EncodePoints(<<PointA>>, 16)) :
            step \in {0, 12, 15}}

TruncatedPcds ==
    {PointCloud2(XyziFields, 20, SubSeq(EncodePoints(<<PointA, PointB>>, 20), 1, 30))}

PcdMsgs == WellFormedPcds \cup MalformedPcds \cup TruncatedPcds

Image(height, width, encoding, is_bigendian, step, data) ==
    [height |-> height, width |-> width, encoding |-> encoding,
     is_bigendian |-> is_bigendian, step |-> step, data |-> data]

\* The images sent to the worker, whose Otobrite camera is 2 pixels wide and
\* 1 pixel high: one good image per encoding, and one image per way of
\* being refused.
GoodImages ==
    { Image(1, 2, "RGB8", 0, 6, <<10, 20, 30, 40, 50, 60>>),
      Image(1, 2, "UYVY", 0, 4, <<128, 81, 128, 145>>) }

WrongSizeImages ==
    { Image(2, 2, "BGR8", 0, 6, <<10, 20, 30, 40, 50, 60, 1, 2, 3, 4, 5, 6>>),
      Image(1, 1, "MONO8", 1, 3, <<10, 20, 30>>) }

UndecodableImages ==
    { Image(1, 2, "BGR8", 1, 6, <<10, 20, 30, 40, 50, 60>>),
      Image(1, 2, "MONO8", 0, 2, <<10, 20>>),
      Image(1, 2, "UYVY", 0, 4, <<128, 81, 128>>) }

ImageMsgs == GoodImages \cup WrongSizeImages \cup UndecodableImages

Detection2D(results, cx, cy, size_x, size_y) ==
    [results |-> results,
     bbox |-> [center |-> [x |-> cx, y |-> cy],
               size_x |-> size_x, size_y |-> size_y]]

\* In the image: top-left (2, 2), 4 wide and 4 high.
Det1 == Detection2D(<<"car">>, 2, 2, 2, 2)

\* In the image: top-left (4, 2), 4 wide and 4 high.
Det2 == Detection2D(<<"person", "car">>, 3, 2, 2, 2)

\* In the image: top-left (6, 4), 4 wide and 4 high; no class.
Det3 == Detection2D(<< >>, 4, 3, 2, 2)

Detection2DArray(detections) == [detections |-> detections]

\* The detection sets sent to the worker.
DetMsgs ==
    { Detection2DArray(<< >>), Detection2DArray(<<Det1>>),
      Detection2DArray(<<Det3>>),
      Detection2DArray(<<Det1, Det2>>), Detection2DArray(<<Det3, Det2>>) }

InputMessage(kind, msg) == [kind |-> kind, msg |-> msg]

(***************************************************************************)
(* The fusing worker, one message at a time.                               *)
(***************************************************************************)
NoMessage == InputMessage("None", << >>)

\* RectRTree::find and PointProjector::map are not under test.
QueriesIdle ==
    /\ find_query = << >>
    /\ find_result = NotCalled
    /\ proj_query = << >>
    /\ proj_result = NotCalled

\* No channel of start exists.
PipeIdle ==
    /\ stream_ended = FALSE
    /\ forward_item = None
    /\ input_ch = << >>
    /\ worker_pc = "none"
    /\ worker_out = << >>
    /\ output_ch = << >>
    /\ consumer = "none"
    /\ enqueued = << >>
    /\ processed = << >>
    /\ emitted = << >>
    /\ delivered = << >>

\* No channel of split exists.
SplitIdle ==
    /\ fuse_stream = << >>
    /\ split_pc = "none"
    /\ opencv_ch = << >>
    /\ kiss3d_ch = << >>
    /\ opencv_rx = "none"
    /\ kiss3d_rx = "none"
    /\ opencv_got = << >>
    /\ kiss3d_got = << >>

\* No buffer is allocated.
HeapIdle ==
    /\ heap = << >>
    /\ refs = << >>
    /\ held = << >>

\* No subscription is merged.
MergeIdle ==
    /\ sources = << >>
    /\ ready = << >>
    /\ arrived = << >>
    /\ merged = << >>

\* No RateMeter exists.
MeterIdle ==
    /\ meter_count = 0
    /\ reported = << >>
    /\ bumped = 0

\* No YoloResult is received.
ServerIdle ==
    /\ yolo = << >>
    /\ boxes_result = << >>

NoPcd == PointCloud2(<< >>, 0, << >>)

NoImage == Image(0, 0, "", 0, 0, << >>)

\* The worker's loop body on in_msg: state.map_msg(in_msg).  A panic ends
\* the worker.
Received(m, r) ==
    /\ result.tag # "Panic"
    /\ cache' = r.cache
    /\ result' = [tag |-> r.tag, err |-> r.err, out_msgs |-> r.out_msgs]
    /\ in_msg' = m

\* input_rx.recv() yields a point cloud.
RecvPointCloud2 ==
    \E m \in PcdMsgs :
        /\ Received(InputMessage("PointCloud2", m),
                    map_msg(cache, InputMessage("PointCloud2", m)))
        /\ UNCHANGED <<decoder_vars, query_vars, pipe_vars, split_vars, heap_vars, merge_vars, meter_vars, yolo_vars>>

\* input_rx.recv() yields an image of the Otobrite camera.
RecvOtobriteImage ==
    \E m \in ImageMsgs :
        /\ Received(InputMessage("OtobriteImage", m),
                    map_msg(cache, InputMessage("OtobriteImage", m)))
        /\ UNCHANGED <<decoder_vars, query_vars, pipe_vars, split_vars, heap_vars, merge_vars, meter_vars, yolo_vars>>

\* input_rx.recv() yields the detections of the Kneron camera.
RecvBBox ==
    \E m \in DetMsgs :
        /\ Received(InputMessage("BBox", m),
                    map_msg(cache, InputMessage("BBox", m)))
        /\ UNCHANGED <<decoder_vars, query_vars, pipe_vars, split_vars, heap_vars, merge_vars, meter_vars, yolo_vars>>

Init ==
    /\ QueriesIdle /\ PipeIdle /\ SplitIdle /\ HeapIdle /\ MergeIdle /\ MeterIdle /\ ServerIdle
    /\ cache = EmptyCache
    /\ in_msg = NoMessage
    /\ result = [tag |-> "NotCalled", err |-> "", out_msgs |-> << >>]
    /\ pcd = NoPcd
    /\ points_result = NotCalled
    /\ image = NoImage
    /\ mat_result = NotCalled

Next == RecvPointCloud2 \/ RecvOtobriteImage \/ RecvBBox

Spec == Init /\ [][Next]_vars

(***************************************************************************)
(* pcd_to_points on its own: the decoder applied to one point cloud.       *)
(***************************************************************************)
\* A point whose sixteen bytes all differ.
PointR ==
    [position |-> <<<<1, 2, 3, 4>>, <<5, 6, 7, 8>>, <<9, 10, 11, 12>>>>,
     intensity |-> <<13, 14, 15, 16>>]

DecodePointLists ==
    UNION {[1..k -> PointCandidates \cup {PointR}] : k \in 0..MaxPoints}

\* The schema with a fifth field after the four that are read.
XyziRingFields == XyziFields \o <<Field("ring", 4, 1)>>

\* The record sizes tried.
PointSteps == {0, 12, 15, 16, 17, 20, 32}

\* A buffer of whole records, and the same buffer without its last cut bytes.
PcdData(pl, point_step, cut) ==
    SubSeq(EncodePoints(pl, Max(point_step, 16)), 1,
           Max(0, Len(pl) * Max(point_step, 16) - cut))

PcdInputs ==
    {PointCloud2(f, step, PcdData(pl, step, cut)) :
        f \in BadFields \cup {XyziFields, XyziRingFields},
        step \in PointSteps, pl \in DecodePointLists, cut \in {0, 4}}

InitPcd ==
    /\ QueriesIdle /\ PipeIdle /\ SplitIdle /\ HeapIdle /\ MergeIdle /\ MeterIdle /\ ServerIdle
    /\ pcd \in PcdInputs
    /\ points_result = NotCalled
    /\ cache = EmptyCache
    /\ in_msg = NoMessage
    /\ result = [tag |-> "NotCalled", err |-> "", out_msgs |-> << >>]
    /\ image = NoImage
    /\ mat_result = NotCalled

DecodePcd ==
    /\ points_result.tag = "NotCalled"
    /\ points_result' = pcd_to_points(pcd)
    /\ UNCHANGED <<cache, in_msg, result, pcd, image, mat_result>>
    /\ UNCHANGED <<query_vars, pipe_vars, split_vars, heap_vars, merge_vars, meter_vars, yolo_vars>>

NextPcd == DecodePcd

SpecPcd == InitPcd /\ [][NextPcd]_vars

(***************************************************************************)
(* image_to_mat on its own, and the worker's handling of the same image:   *)
(* the decoder applied to one image, which the worker receives on an empty *)
(* cache or after a good image.                                            *)
(***************************************************************************)
\* The longest side of an image, in pixels.
MaxSide == 2

\* The bytes an image buffer is cut from.
ByteRamp == [k \in 1..(3 * MaxSide * MaxSide + 1) |-> (16 + 37 * k) % 256]

ImageInputs ==
    {Image(h, w, encoding, is_bigendian, step, SubSeq(ByteRamp, 1, len)) :
        h \in 1..MaxSide, w \in 1..MaxSide,
        encoding \in {"BGR8", "RGB8", "UYVY", "MONO8", "bgr8"},
        is_bigendian \in {0, 1},
        step \in 0..(3 * MaxSide + 1),
        len \in 0..(3 * MaxSide * MaxSide + 1)}

InitImage ==
    /\ QueriesIdle /\ PipeIdle /\ SplitIdle /\ HeapIdle /\ MergeIdle /\ MeterIdle /\ ServerIdle
    /\ image \in ImageInputs
    /\ mat_result = NotCalled
    /\ cache = EmptyCache
    /\ in_msg = NoMessage
    /\ result = [tag |-> "NotCalled", err |-> "", out_msgs |-> << >>]
    /\ pcd = NoPcd
    /\ points_result = NotCalled

\* The worker receives a good image before the image under test.
RecvFirstImage ==
    /\ mat_result.tag = "NotCalled"
    /\ in_msg = NoMessage
    /\ \E m \in GoodImages :
          Received(InputMessage("OtobriteImage", m),
                   map_msg(cache, InputMessage("OtobriteImage", m)))
    /\ UNCHANGED <<decoder_vars, query_vars, pipe_vars, split_vars, heap_vars, merge_vars, meter_vars, yolo_vars>>

\* The image under test is decoded, and given to the worker.
DecodeImage ==
    /\ mat_result.tag = "NotCalled"
    /\ mat_result' = image_to_mat(image)
    /\ Received(InputMessage("OtobriteImage", image),
                map_msg(cache, InputMessage("OtobriteImage", image)))
    /\ UNCHANGED <<pcd, points_result, image>>
    /\ UNCHANGED <<query_vars, pipe_vars, split_vars, heap_vars, merge_vars, meter_vars, yolo_vars>>

NextImage == RecvFirstImage \/ DecodeImage

SpecImage == InitImage /\ [][NextImage]_vars

(***************************************************************************)
(* What the properties below expect, written without the operators of the  *)
(* decoder and of the update functions.                                    *)
(***************************************************************************)
\* The f32 of the four little-endian bytes at the 0-based offset at.
LeWord(data, at) == <<data[at + 4], data[at + 3], data[at + 2], data[at + 1]>>

\* The point of the record that starts at the 0-based offset base.
RecordPoint(data, base) ==
    [position |-> <<LeWord(data, base), LeWord(data, base + 4),
                    LeWord(data, base + 8)>>,
     intensity |-> LeWord(data, base + 12)]

\* The points of a buffer of whole records.
RecordPoints(msg) ==
    [i \in 1..(Len(msg.data) \div msg.point_step) |->
        RecordPoint(msg.data, (i - 1) * msg.point_step)]

\* The first four fields are x, y, z, intensity, each one 32-bit float.
ValidSchema(msg) ==
    /\ Len(msg.fields) >= 4
    /\ <<msg.fields[1].name, msg.fields[2].name, msg.fields[3].name,
         msg.fields[4].name>> = <<"x", "y", "z", "intensity">>
    /\ \A i \in 1..4 : msg.fields[i].datatype = 7 /\ msg.fields[i].count = 1

\* A valid schema, records of at least 16 bytes, a buffer of whole records.
ValidPcd(msg) ==
    /\ ValidSchema(msg)
    /\ msg.point_step >= 16
    /\ Len(msg.data) % msg.point_step = 0

\* The association list of projected points against a detection set: each
\* point with the object find() gives for its pixel, or with no object when
\* there is no detection set.
DerivedAssocs(pairs, bboxes) ==
    [k \in 1..Len(pairs) |->
        [pcd_point |-> pairs[k].pcd_point, img_point |-> pairs[k].img_point,
         object |-> IF bboxes = None THEN None
                    ELSE find(bboxes[1].index, pairs[k].img_point)]]

DerivedKneronAssocs(points, bboxes) ==
    DerivedAssocs(PointProjector_map(kneron_projector, points), bboxes)

DerivedOtobriteAssocs(points) ==
    DerivedAssocs(PointProjector_map(otobrite_projector, points), None)

(***************************************************************************)
(* Properties of the worker.                                               *)
(***************************************************************************)
\* C1: in every reachable state a cached association list of the Kneron
\* camera equals the list derived from the cached point cloud and the cached
\* detection set, and a cached association list of the Otobrite camera
\* equals the list derived from the cached point cloud: no list is left over
\* from a point cloud or a detection set that has been replaced.
C1_AssocsDerivedFromCache ==
    /\ cache.kneron_assocs # None =>
          /\ cache.points # None
          /\ cache.kneron_assocs[1]
               = DerivedKneronAssocs(cache.points[1], cache.kneron_bboxes)
    /\ cache.otobrite_assocs # None =>
          /\ cache.points # None
          /\ cache.otobrite_assocs[1] = DerivedOtobriteAssocs(cache.points[1])

\* A detection set has just replaced another one under a point cloud: one
\* point of the cloud lies in a box and another in none.
C1_Witness ==
    /\ in_msg.kind = "BBox"
    /\ result.tag = "Ok"
    /\ cache.points # None
    /\ cache.kneron_assocs # None
    /\ \E k \in 1..Len(cache.kneron_assocs[1]) :
          cache.kneron_assocs[1][k].object # None
    /\ \E k \in 1..Len(cache.kneron_assocs[1]) :
          cache.kneron_assocs[1][k].object = None
    /\ cache.otobrite_assocs # None
    /\ Len(cache.otobrite_assocs[1]) > 0

\* C2: a step that handles a valid point cloud leaves exactly the points of
\* that message in the cache, leaves the association lists of both cameras
\* computed from those points (and, for the Kneron camera, the detection set
\* as it was), and leaves the Otobrite image and the detection set with its
\* index as they were.
C2_PcdReplacesFrame ==
    [][in_msg'.kind = "PointCloud2" /\ ValidPcd(in_msg'.msg) =>
          /\ result'.tag = "Ok"
          /\ cache'.points = Some(RecordPoints(in_msg'.msg))
          /\ cache'.kneron_assocs
               = Some(DerivedKneronAssocs(RecordPoints(in_msg'.msg),
                                          cache.kneron_bboxes))
          /\ cache'.otobrite_assocs
               = Some(DerivedOtobriteAssocs(RecordPoints(in_msg'.msg)))
          /\ cache'.otobrite_image = cache.otobrite_image
          /\ cache'.kneron_bboxes = cache.kneron_bboxes]_vars

\* A point cloud of two records of 20 bytes has been taken into a cache that
\* holds an image and a detection set.
C2_Witness ==
    /\ in_msg.kind = "PointCloud2"
    /\ ValidPcd(in_msg.msg)
    /\ in_msg.msg.point_step = 20
    /\ result.tag = "Ok"
    /\ cache.points # None
    /\ Len(cache.points[1]) = 2
    /\ cache.otobrite_image # None
    /\ cache.kneron_bboxes # None
    /\ Len(cache.kneron_bboxes[1].objects) = 2

\* C3: a step that handles a detection set leaves the cached points, the
\* Otobrite image and the association list of the Otobrite camera as they
\* were; only the detection set, its index and the association list of the
\* Kneron camera may change.
C3_BBoxKeepsOtobrite ==
    [][in_msg'.kind = "BBox" =>
          /\ cache'.points = cache.points
          /\ cache'.otobrite_image = cache.otobrite_image
          /\ cache'.otobrite_assocs = cache.otobrite_assocs]_vars

\* A detection set has been taken into a cache that holds a point cloud, an
\* image and associations of the Otobrite camera.
C3_Witness ==
    /\ in_msg.kind = "BBox"
    /\ Len(in_msg.msg.detections) = 1
    /\ cache.kneron_bboxes # None
    /\ cache.points # None
    /\ Len(cache.points[1]) = 2
    /\ cache.otobrite_image # None
    /\ cache.otobrite_assocs # None
    /\ Len(cache.otobrite_assocs[1]) = 1

\* C4: a step that handles an image, whether the image is accepted or
\* rejected, leaves the association lists of both cameras, the cached points
\* and the detection set as they were; after an accepted image the cache
\* holds an image.
C4_ImageKeepsRest ==
    [][in_msg'.kind = "OtobriteImage" =>
          /\ cache'.kneron_assocs = cache.kneron_assocs
          /\ cache'.otobrite_assocs = cache.otobrite_assocs
          /\ cache'.points = cache.points
          /\ cache'.kneron_bboxes = cache.kneron_bboxes
          /\ result'.tag = "Ok" => cache'.otobrite_image # None]_vars

\* An image has been accepted into a cache that holds a point cloud, a
\* detection set and associations.
C4_Witness ==
    /\ in_msg.kind = "OtobriteImage"
    /\ result.tag = "Ok"
    /\ cache.otobrite_image # None
    /\ cache.points # None
    /\ cache.kneron_bboxes # None
    /\ cache.kneron_assocs # None
    /\ Len(cache.kneron_assocs[1]) = 2
    /\ cache.otobrite_assocs # None

\* A malformed schema, as the decoder is said to refuse it: fewer than four
\* fields, first four fields not named x, y, z, intensity in that order, one
\* of them not a single 32-bit float (datatype 7, count 1), or records of
\* fewer than 16 bytes.
MalformedSchema(msg) ==
    \/ Len(msg.fields) < 4
    \/ /\ Len(msg.fields) >= 4
       /\ \/ msg.fields[1].name # "x"
          \/ msg.fields[2].name # "y"
          \/ msg.fields[3].name # "z"
          \/ msg.fields[4].name # "intensity"
          \/ \E i \in 1..4 :
                msg.fields[i].datatype # 7 \/ msg.fields[i].count # 1
    \/ msg.point_step < 16

\* C5: a step that handles a point cloud with a malformed schema ends in an
\* error and leaves the whole cache (points, image, detection set and both
\* association lists) as it was.
C5_MalformedPcdKeepsCache ==
    [][in_msg'.kind = "PointCloud2" /\ MalformedSchema(in_msg'.msg) =>
          /\ result'.tag = "Err"
          /\ result'.out_msgs = << >>
          /\ cache' = cache]_vars

\* A point cloud whose fields are four but not all single 32-bit floats has
\* been refused by a worker whose cache holds a point cloud, a detection set
\* and associations.
C5_Witness ==
    /\ in_msg.kind = "PointCloud2"
    /\ MalformedSchema(in_msg.msg)
    /\ Len(in_msg.msg.fields) >= 4
    /\ in_msg.msg.point_step >= 16
    /\ \E i \in 1..4 : in_msg.msg.fields[i].datatype # 7
    /\ result.tag = "Err"
    /\ cache.points # None
    /\ Len(cache.points[1]) > 0
    /\ cache.kneron_bboxes # None
    /\ cache.kneron_assocs # None
    /\ cache.otobrite_assocs # None

\* C10: a step that handles a detection set while the cache holds no point
\* cloud succeeds, stores the detection set (one object for each detection)
\* with its index, and leaves the association list of the Kneron camera
\* absent.
C10_BBoxBeforePcd ==
    [][in_msg'.kind = "BBox" /\ cache.points = None =>
          /\ result'.tag = "Ok"
          /\ cache'.kneron_bboxes # None
          /\ Len(cache'.kneron_bboxes[1].objects) = Len(in_msg'.msg.detections)
          /\ cache'.kneron_bboxes[1].index
               = RectRTree_from_iter(cache'.kneron_bboxes[1].objects)
          /\ cache.kneron_assocs = None
          /\ cache'.kneron_assocs = None]_vars

\* Two detections have been stored in a cache without a point cloud.
C10_Witness ==
    /\ in_msg.kind = "BBox"
    /\ Len(in_msg.msg.detections) = 2
    /\ result.tag = "Ok"
    /\ cache.points = None
    /\ cache.kneron_bboxes # None
    /\ Len(cache.kneron_bboxes[1].objects) = 2
    /\ cache.kneron_assocs = None

C7_RecordsDecodeInOrder ==
    points_result.tag # "NotCalled" /\ ValidPcd(pcd) =>
        /\ points_result.tag = "Ok"
        /\ Len(points_result.val) * pcd.point_step = Len(pcd.data)
        /\ points_result.val = RecordPoints(pcd)
        /\ \A pl \in DecodePointLists :
              pcd.data = EncodePoints(pl, pcd.point_step) =>
                  points_result.val = pl

\* The encoding of two different points in records of 20 bytes has been
\* decoded to the two points.
C7_Witness ==
    /\ ValidPcd(pcd)
    /\ pcd.point_step = 20
    /\ pcd.data = EncodePoints(<<PointR, PointA>>, 20)
    /\ points_result = Ok(<<PointR, PointA>>)

(***************************************************************************)
(* Properties of image_to_mat and of the worker's handling of an image.    *)
(***************************************************************************)
\* The step of DecodeImage.
ImageHandled == mat_result.tag = "NotCalled" /\ mat_result'.tag # "NotCalled"

\* The image has the size the Otobrite camera is configured with.
ConfiguredSize(img) ==
    img.height = otobrite_projector.height /\ img.width = otobrite_projector.width

\* C8: a step that handles an image whose height or width differs from the
\* configured size of the Otobrite camera ends in the error of the size
\* check, whether or not the image could be decoded, keeps the cached image
\* and emits no output message.
C8_WrongSizeRejected ==
    [][ImageHandled /\ ~ConfiguredSize(image) =>
          /\ result'.tag = "Err"
          /\ result'.err = "Expect sized image"
          /\ result'.out_msgs = << >>
          /\ cache'.otobrite_image = cache.otobrite_image]_vars

\* An image that decodes but has another size than the configured one has
\* been refused by a worker that holds an earlier image.
C8_Witness ==
    /\ in_msg.kind = "OtobriteImage"
    /\ in_msg.msg = image
    /\ mat_result.tag = "Ok"
    /\ ~ConfiguredSize(image)
    /\ result.tag = "Err"
    /\ cache.otobrite_image # None

\* The bytes of a pixel in an encoding.
BytesPerPixel(encoding) == IF encoding = "UYVY" THEN 2 ELSE 3

\* What an image needs to decode.
Decodable(img) ==
    /\ img.is_bigendian = 0
    /\ img.encoding \in {"BGR8", "RGB8", "UYVY"}
    /\ img.step = img.width * BytesPerPixel(img.encoding)
    /\ Len(img.data) = img.step * img.height

\* C9: the decoding of an image succeeds exactly when the big-endian flag is
\* 0, the encoding is BGR8, RGB8 or UYVY, the row stride is the width times
\* the bytes of a pixel (3, 3, 2) and the data is as long as the row stride
\* times the height; otherwise it is an error, the worker's step ends in an
\* error and the cached image stays as it was.
C9_DecodesExactlyWellFormed ==
    [][ImageHandled =>
          /\ mat_result'.tag = "Ok" <=> Decodable(image)
          /\ ~Decodable(image) =>
                /\ mat_result'.tag = "Err"
                /\ result'.tag = "Err"
                /\ cache'.otobrite_image = cache.otobrite_image]_vars

\* A UYVY image of the configured size with the right row stride but one
\* byte too few has been refused by a worker that holds an earlier image.
C9_Witness ==
    /\ in_msg.kind = "OtobriteImage"
    /\ in_msg.msg = image
    /\ ConfiguredSize(image)
    /\ image.encoding = "UYVY"
    /\ image.is_bigendian = 0
    /\ image.step = 2 * image.width
    /\ Len(image.data) = image.step * image.height - 1
    /\ mat_result.tag = "Err"
    /\ result.tag = "Err"
    /\ cache.otobrite_image # None

RectContains(rect, point) ==
    /\ rect.x <= point[1] /\ point[1] <= rect.x + rect.width
    /\ rect.y <= point[2] /\ point[2] <= rect.y + rect.height

\* C12: in every reachable state every association of the Kneron camera has
\* its img_point inside [0, width] x [0, height] of the camera, and its
\* object is absent or is an element of the cached detection set whose
\* rectangle (top-left x, y, width, height) contains img_point.
C12_KneronAssocsInsideBoxes ==
    cache.kneron_assocs # None =>
        \A k \in 1..Len(cache.kneron_assocs[1]) :
            /\ 0 <= cache.kneron_assocs[1][k].img_point[1]
            /\ cache.kneron_assocs[1][k].img_point[1] <= kneron_projector.width
            /\ 0 <= cache.kneron_assocs[1][k].img_point[2]
            /\ cache.kneron_assocs[1][k].img_point[2] <= kneron_projector.height
            /\ \/ cache.kneron_assocs[1][k].object = None
               \/ /\ cache.kneron_bboxes # None
                  /\ cache.kneron_assocs[1][k].object[1].idx
                       \in 1..Len(cache.kneron_bboxes[1].objects)
                  /\ cache.kneron_bboxes[1].objects[
                         cache.kneron_assocs[1][k].object[1].idx]
                       = cache.kneron_assocs[1][k].object[1].elem
                  /\ RectContains(cache.kneron_assocs[1][k].object[1].elem.rect,
                                  cache.kneron_assocs[1][k].img_point)

(***************************************************************************)
(* RectRTree::find on its own: the index of a detection set, built as      *)
(* update_kneron_det builds it, asked for one pixel.                       *)
(***************************************************************************)
\* The most detections in a detection set.
MaxObjects == 3

\* The detection sets and the pixels of the Kneron image.
FindQueries ==
    {[det |-> Detection2DArray(d), point |-> <<x, y>>] :
        d \in UNION {[1..k -> {Det1, Det2, Det3}] : k \in 0..MaxObjects},
        x \in 0..kneron_projector.width, y \in 0..kneron_projector.height}

InitFind ==
    /\ find_query \in FindQueries
    /\ find_result = NotCalled
    /\ proj_query = << >>
    /\ proj_result = NotCalled
    /\ cache = EmptyCache
    /\ in_msg = NoMessage
    /\ result = [tag |-> "NotCalled", err |-> "", out_msgs |-> << >>]
    /\ pcd = NoPcd
    /\ points_result = NotCalled
    /\ image = NoImage
    /\ mat_result = NotCalled
    /\ PipeIdle /\ SplitIdle /\ HeapIdle /\ MergeIdle /\ MeterIdle /\ ServerIdle

\* bboxes.index.find(&img_point) on the index update_kneron_det stores.
CallFind ==
    /\ find_result.tag = "NotCalled"
    /\ find_result' =
          Ok(find(update_kneron_det(EmptyCache, find_query.det).kneron_bboxes[1].index,
                  find_query.point))
    /\ UNCHANGED <<cache, in_msg, result, decoder_vars, find_query, proj_query,
                   proj_result, pipe_vars, split_vars, heap_vars, merge_vars, meter_vars, yolo_vars>>

NextFind == CallFind

SpecFind == InitFind /\ [][NextFind]_vars

\* The detections of the query whose rectangle, taken from its top-left
\* corner, contains the pixel of the query.
Holders(detections, point) ==
    {i \in 1..Len(detections) :
        RectContains(object_of_detection(detections[i]).rect, point)}

\* C13: for every detection set and every pixel, find returns a detection
\* whose rectangle (top-left x, y with its width and height, as
\* update_kneron_det builds it) contains the pixel whenever exactly one
\* rectangle contains it, and returns nothing when no rectangle contains it.
C13_FindGivesContainingBox ==
    find_result.tag = "Ok" =>
        /\ Cardinality(Holders(find_query.det.detections, find_query.point)) = 1 =>
              /\ find_result.val # None
              /\ RectContains(find_result.val[1].elem.rect, find_query.point)
        /\ Holders(find_query.det.detections, find_query.point) = {} =>
              find_result.val = None

(***************************************************************************)
(* start: the forwarding of input_stream into the input channel, the loop  *)
(* of the worker between the two channels and the output stream, which is  *)
(* the output channel taken until forward_future and handle_future are     *)
(* both done.  forward_future is polled only when output_stream is.        *)
(***************************************************************************)
\* The most messages input_stream yields.
MaxInputs == 3

\* The capacity of flume::bounded(2).
ChannelCap == 2

\* The messages input_stream yields: a point cloud, a point cloud with a
\* stride of 12 bytes, a detection set, an image of the configured size and
\* an image of another size.
PipeMsgs ==
    { InputMessage("PointCloud2",
                   PointCloud2(XyziFields, 16, EncodePoints(<<PointA>>, 16))),
      InputMessage("PointCloud2",
                   PointCloud2(XyziFields, 12, EncodePoints(<<PointA>>, 16))),
      InputMessage("BBox", Detection2DArray(<<Det1>>)),
      InputMessage("OtobriteImage", Image(1, 2, "RGB8", 0, 6, <<10, 20, 30, 40, 50, 60>>)),
      InputMessage("OtobriteImage", Image(1, 1, "RGB8", 0, 3, <<10, 20, 30>>)) }

\* A faulty recv: the newest message of the channel comes first.
recv_newest(ch) == [msg |-> ch[Len(ch)], rest |-> SubSeq(ch, 1, Len(ch) - 1)]

\* Receiver::recv on a channel that holds a message: the oldest one.
recv(ch) == [msg |-> Head(ch), rest |-> Tail(ch)]

\* A faulty is_disconnected: a sender is thought to be left for ever.
never_disconnected(ended, owner) == FALSE

\* Whether every sender of the input channel is dropped: input_tx lives in
\* forward_future, which is dropped when it is done and when output_stream
\* is dropped.
is_disconnected(ended, owner) == ended \/ owner = "dropped"

\* A faulty loop_after: the loop is left on an error.
loop_after_break(r, id) ==
    IF r.tag = "Ok" /\ r.out_msgs # << >>
    THEN [pc |-> "send",
          out |-> [k \in 1..Len(r.out_msgs) |-> [input |-> id, msg |-> r.out_msgs[k]]]]
    ELSE IF r.tag = "Ok" THEN [pc |-> "recv", out |-> << >>]
    ELSE [pc |-> "exited", out |-> << >>]

\* The match on the result of map_msg for the message number id of the
\* loop: the out_msgs to send, `continue` on an error; a panic ends the
\* thread.
loop_after(r, id) ==
    IF r.tag = "Ok" /\ r.out_msgs # << >>
    THEN [pc |-> "send",
          out |-> [k \in 1..Len(r.out_msgs) |-> [input |-> id, msg |-> r.out_msgs[k]]]]
    ELSE IF r.tag = "Panic" THEN [pc |-> "exited", out |-> << >>]
    ELSE [pc |-> "recv", out |-> << >>]

InitPipe ==
    /\ cache = EmptyCache
    /\ in_msg = NoMessage
    /\ result = [tag |-> "NotCalled", err |-> "", out_msgs |-> << >>]
    /\ pcd = NoPcd
    /\ points_result = NotCalled
    /\ image = NoImage
    /\ mat_result = NotCalled
    /\ QueriesIdle /\ SplitIdle /\ HeapIdle /\ MergeIdle /\ MeterIdle /\ ServerIdle
    /\ stream_ended = FALSE
    /\ forward_item = None
    /\ input_ch = << >>
    /\ worker_pc = "recv"
    /\ worker_out = << >>
    /\ output_ch = << >>
    /\ consumer = "polling"
    /\ enqueued = << >>
    /\ processed = << >>
    /\ emitted = << >>
    /\ delivered = << >>

\* A channel that takes one message more than flume::bounded(2) allows.
has_room_beyond(ch) == Len(ch) <= ChannelCap

\* Sink::poll_ready of the sender of a bounded channel: the channel takes a
\* message while it holds fewer than its capacity.
has_room(ch) == Len(ch) < ChannelCap

\* forward_future: input_stream yields a message; Forward keeps it until
\* the sink has taken it, and polls input_stream for no other before.
ForwardTake ==
    /\ consumer = "polling"
    /\ ~stream_ended
    /\ forward_item = None
    /\ Len(enqueued) < MaxInputs
    /\ \E m \in PipeMsgs :
          forward_item' = Some([id |-> Len(enqueued) + 1, msg |-> m])
    /\ UNCHANGED <<cache, in_msg, result, decoder_vars, query_vars, split_vars, heap_vars, merge_vars, meter_vars, yolo_vars,
                   stream_ended, input_ch, worker_pc, worker_out, output_ch,
                   consumer, enqueued, processed, emitted, delivered>>

\* forward_future: the sink sends the message it keeps.  The send waits
\* while the channel is full, and it completes when the channel has room:
\* the receiver takes a waiting send into the channel as it makes room.
ForwardSend ==
    /\ consumer # "dropped"
    /\ forward_item # None
    /\ worker_pc # "exited"
    /\ has_room(input_ch)
    /\ input_ch' = Append(input_ch, forward_item[1])
    /\ enqueued' = Append(enqueued, forward_item[1].msg)
    /\ forward_item' = None
    /\ UNCHANGED <<cache, in_msg, result, decoder_vars, query_vars, split_vars, heap_vars, merge_vars, meter_vars, yolo_vars,
                   stream_ended, worker_pc, worker_out, output_ch, consumer,
                   processed, emitted, delivered>>

\* forward_future is done: input_stream has ended after the sink took every
\* message, or the send failed because input_rx is dropped.  The sink, and
\* input_tx in it, is dropped.
ForwardDone ==
    /\ consumer = "polling"
    /\ ~stream_ended
    /\ forward_item = None \/ worker_pc = "exited"
    /\ stream_ended' = TRUE
    /\ forward_item' = None
    /\ UNCHANGED <<cache, in_msg, result, decoder_vars, query_vars, split_vars, heap_vars, merge_vars, meter_vars, yolo_vars,
                   input_ch, worker_pc, worker_out, output_ch, consumer,
                   enqueued, processed, emitted, delivered>>

\* The worker was given the message got and the rest of the channel.
Handle(got, r) ==
    /\ input_ch' = got.rest
    /\ in_msg' = got.msg.msg
    /\ cache' = r.cache
    /\ result' = [tag |-> r.tag, err |-> r.err, out_msgs |-> r.out_msgs]
    /\ processed' = Append(processed, got.msg.id)
    /\ worker_pc' = loop_after(r, got.msg.id).pc
    /\ worker_out' = loop_after(r, got.msg.id).out

\* input_rx.recv() gives a message and state.map_msg(in_msg) is called.
WorkerRecv ==
    /\ worker_pc = "recv"
    /\ input_ch # << >>
    /\ Handle(recv(input_ch), map_msg(cache, recv(input_ch).msg.msg))
    /\ UNCHANGED <<decoder_vars, query_vars, split_vars, heap_vars, merge_vars, meter_vars, yolo_vars, stream_ended,
                   forward_item,
                   output_ch, consumer, enqueued, emitted, delivered>>

\* input_rx.recv() is an error: the channel is empty and no sender is
\* left.  The loop ends; input_rx and output_tx are dropped.
WorkerExit ==
    /\ worker_pc = "recv"
    /\ input_ch = << >>
    /\ is_disconnected(stream_ended, consumer)
    /\ worker_pc' = "exited"
    /\ UNCHANGED <<cache, in_msg, result, decoder_vars, query_vars, split_vars, heap_vars, merge_vars, meter_vars, yolo_vars,
                   stream_ended, forward_item, input_ch, worker_out, output_ch, consumer,
                   enqueued, processed, emitted, delivered>>

\* output_tx.send(msg): it blocks while the channel is full, and it is an
\* error, which breaks the loop, when output_rx is dropped.
WorkerSend ==
    /\ worker_pc = "send"
    /\ IF consumer = "dropped"
       THEN /\ worker_pc' = "exited"
            /\ worker_out' = << >>
            /\ UNCHANGED <<output_ch, emitted>>
       ELSE /\ has_room(output_ch)
            /\ output_ch' = Append(output_ch, Head(worker_out))
            /\ emitted' = Append(emitted, Head(worker_out))
            /\ worker_out' = Tail(worker_out)
            /\ worker_pc' = IF Tail(worker_out) = << >> THEN "recv" ELSE "send"
    /\ UNCHANGED <<cache, in_msg, result, decoder_vars, query_vars, split_vars, heap_vars, merge_vars, meter_vars, yolo_vars,
                   stream_ended, forward_item, input_ch, consumer, enqueued, processed,
                   delivered>>

\* output_stream.next(): TakeUntil polls the future first and yields None
\* once forward_future and handle_future are both done; otherwise the
\* channel yields its oldest message, or None when it is empty and
\* output_tx is dropped.
Poll ==
    /\ consumer = "polling"
    /\ IF stream_ended /\ worker_pc = "exited"
       THEN consumer' = "ended" /\ UNCHANGED <<output_ch, delivered>>
       ELSE IF output_ch # << >>
       THEN /\ delivered' = Append(delivered, Head(output_ch))
            /\ output_ch' = Tail(output_ch)
            /\ UNCHANGED consumer
       ELSE /\ worker_pc = "exited"
            /\ consumer' = "ended"
            /\ UNCHANGED <<output_ch, delivered>>
    /\ UNCHANGED <<cache, in_msg, result, decoder_vars, query_vars, split_vars, heap_vars, merge_vars, meter_vars, yolo_vars,
                   stream_ended, forward_item, input_ch, worker_pc, worker_out, enqueued,
                   processed, emitted>>

\* The owner of output_stream stops polling it for a while.
Pause ==
    /\ consumer = "polling"
    /\ consumer' = "paused"
    /\ UNCHANGED <<cache, in_msg, result, decoder_vars, query_vars, split_vars, heap_vars, merge_vars, meter_vars, yolo_vars,
                   stream_ended, forward_item, input_ch, worker_pc, worker_out, output_ch,
                   enqueued, processed, emitted, delivered>>

\* The owner of output_stream polls it again.
Resume ==
    /\ consumer = "paused"
    /\ consumer' = "polling"
    /\ UNCHANGED <<cache, in_msg, result, decoder_vars, query_vars, split_vars, heap_vars, merge_vars, meter_vars, yolo_vars,
                   stream_ended, forward_item, input_ch, worker_pc, worker_out, output_ch,
                   enqueued, processed, emitted, delivered>>

\* output_stream is dropped, and output_rx and forward_future, with the
\* message it keeps, with it.
DropStream ==
    /\ consumer \in {"polling", "paused"}
    /\ consumer' = "dropped"
    /\ forward_item' = None
    /\ UNCHANGED <<cache, in_msg, result, decoder_vars, query_vars, split_vars, heap_vars, merge_vars, meter_vars, yolo_vars,
                   stream_ended, input_ch, worker_pc, worker_out, output_ch,
                   enqueued, processed, emitted, delivered>>

NextPipe ==
    \/ ForwardTake \/ ForwardSend \/ ForwardDone \/ WorkerRecv \/ WorkerExit \/ WorkerSend
    \/ Poll \/ Pause \/ Resume \/ DropStream

SpecPipe == InitPipe /\ [][NextPipe]_vars

(***************************************************************************)
(* The order of the outputs of one input.                                  *)
(***************************************************************************)
\* The place of a kind of output among the outputs of one input.
Rank(kind) == IF kind = "Kiss3d" THEN 1 ELSE IF kind = "Kneron" THEN 2 ELSE 3

\* The outputs of each input follow one another in the sequence outs of
\* tagged outputs in the order Kiss3d, Kneron, Otobrite.
InKindOrder(outs) ==
    \A i \in 1..(Len(outs) - 1) :
        outs[i].input = outs[i + 1].input
            => Rank(outs[i].msg.kind) < Rank(outs[i + 1].msg.kind)

\* C14: when one input produces more than one output, the outputs come in
\* the order Kiss3d, then Kneron, then Otobrite, in the Vec map_msg returns
\* and, unchanged, in the output channel and on the output stream.
C14_OutputsInKindOrder ==
    /\ \A i \in 1..(Len(result.out_msgs) - 1) :
          Rank(result.out_msgs[i].kind) < Rank(result.out_msgs[i + 1].kind)
    /\ InKindOrder(emitted)
    /\ InKindOrder(output_ch)
    /\ InKindOrder(delivered)
    /\ \A i \in 1..Len(delivered) : delivered[i] = emitted[i]

\* The three outputs of a point cloud received after it were delivered.
C14_Witness ==
    \E i \in 1..(Len(delivered) - 2) :
        /\ delivered[i].input = delivered[i + 2].input
        /\ delivered[i].msg.kind = "Kiss3d"
        /\ delivered[i + 1].msg.kind = "Kneron"
        /\ delivered[i + 2].msg.kind = "Otobrite"

(***************************************************************************)
(* The order of the inputs.                                                *)
(***************************************************************************)
\* The inputs of the tagged outputs outs never go back.
InInputOrder(outs) ==
    \A i \in 1..(Len(outs) - 1) : outs[i].input <= outs[i + 1].input

\* C15: the worker processes the inputs strictly in the order they were
\* put in the input channel, and every output of an earlier input is on the
\* output stream before any output of a later input.
C15_InputsInEnqueueOrder ==
    /\ \A k \in 1..Len(processed) : processed[k] = k
    /\ processed # << >> => in_msg = enqueued[Len(processed)]
    /\ \A k \in 1..Len(input_ch) :
          /\ input_ch[k].id = Len(processed) + k
          /\ input_ch[k].msg = enqueued[input_ch[k].id]
    /\ InInputOrder(emitted \o worker_out)
    /\ InInputOrder(delivered \o output_ch)

\* Three inputs were processed and outputs of the first and of the last
\* of them were delivered.
C15_Witness ==
    /\ Len(processed) = MaxInputs
    /\ \E i, j \in 1..Len(delivered) :
          /\ i < j
          /\ delivered[i].input = 1
          /\ delivered[j].input = MaxInputs

(***************************************************************************)
(* Backpressure on the output channel.                                     *)
(***************************************************************************)
\* C16: with the output channel full and the consumer not receiving, the
\* worker waits in send: the channel never holds more than its capacity
\* and the outputs not yet delivered are in it, none dropped and in the
\* order they were emitted; a consumer that receives again, up to the end
\* of the stream, has been given every output that was emitted.
C16_BackpressureLosesNothing ==
    /\ Len(output_ch) <= ChannelCap
    /\ delivered \o output_ch = emitted
    /\ consumer = "ended" => delivered = emitted

(***************************************************************************)
(* Inputs that fail.                                                       *)
(***************************************************************************)
\* Whether map_msg takes the message m; the errors of map_msg are those of
\* the decoding and of the size check, which do not depend on the cache.
Succeeds(m) == map_msg(EmptyCache, m).tag = "Ok"

\* The run r with the outputs outs before its own.
Prepended(outs, r) == [cache |-> r.cache, outs |-> outs \o r.outs]

\* The cache and the outputs after map_msg took the messages msgs one
\* after the other, from the cache c on.
RECURSIVE RunFrom(_, _)
RunFrom(c, msgs) ==
    IF msgs = << >> THEN [cache |-> c, outs |-> << >>]
    ELSE Prepended(map_msg(c, Head(msgs)).out_msgs,
                   RunFrom(map_msg(c, Head(msgs)).cache, Tail(msgs)))

\* The worker is where the run r leaves it.
AsAfter(r) ==
    /\ cache = r.cache
    /\ [k \in 1..Len(emitted) |-> emitted[k].msg] = r.outs

\* C19: an input that fails gives no output and the worker goes on to the
\* next message; between two messages the cache and the outputs emitted
\* are those of a worker that was sent only the inputs that did not fail.
C19_FailedInputLeavesNoTrace ==
    /\ [](worker_pc = "recv"
            => AsAfter(RunFrom(EmptyCache,
                               SelectSeq(SubSeq(enqueued, 1, Len(processed)), Succeeds))))
    /\ [][processed' # processed /\ result'.tag = "Err"
            => /\ cache' = cache
               /\ worker_out' = << >>
               /\ emitted' = emitted
               /\ output_ch' = output_ch
               /\ worker_pc' = "recv"]_vars

\* An input failed, the next one did not, and its outputs were emitted.
C19_Witness ==
    /\ worker_pc = "recv"
    /\ \E k \in 1..(Len(processed) - 1) :
          /\ ~Succeeds(enqueued[k])
          /\ Succeeds(enqueued[k + 1])
          /\ emitted # << >>
          /\ emitted[Len(emitted)].input = k + 1

(***************************************************************************)
(* The end of the streams.  The worker is a thread of its own, which runs  *)
(* whenever it can; the owner of output_stream keeps it and keeps polling  *)
(* it.                                                                     *)
(***************************************************************************)
NextPipeKept ==
    \/ ForwardTake \/ ForwardSend \/ ForwardDone \/ WorkerRecv \/ WorkerExit \/ WorkerSend
    \/ Poll

\* WF_vars(WorkerRecv), with the condition under which WorkerRecv is
\* enabled written out.
WorkerRecvFair ==
    \/ []<>(~(worker_pc = "recv" /\ input_ch # << >>))
    \/ []<><<WorkerRecv>>_vars

FairPipe ==
    /\ InitPipe /\ [][NextPipeKept]_vars
    /\ WorkerRecvFair
    /\ WF_vars(ForwardSend)
    /\ WF_vars(WorkerExit) /\ WF_vars(WorkerSend) /\ WF_vars(Poll)

\* C18: once the input stream has ended, and the consumer keeps receiving,
\* the worker processes the messages still in the input channel, leaves
\* its loop and terminates, and the output stream ends.
C18_EndOfInputEndsStreams ==
    stream_ended ~> /\ worker_pc = "exited"
                    /\ input_ch = << >>
                    /\ Len(processed) = Len(enqueued)
                    /\ consumer = "ended"

\* The input stream ended with messages in the input channel; they were
\* processed, the worker terminated and the output stream ended.
C18_Witness ==
    /\ stream_ended
    /\ Len(processed) = MaxInputs
    /\ delivered # << >>
    /\ worker_pc = "exited"
    /\ consumer = "ended"

(***************************************************************************)
(* split: the loop that forwards the messages of the stream of the worker  *)
(* to the channel of the OpenCV window or to that of the Kiss3d window.    *)
(***************************************************************************)
\* The most messages the stream given to split yields.
MaxOutputs == 4

\* The kinds of the messages of the streams given to split.
FuseStreams ==
    UNION {[1..k -> {"Kiss3d", "Kneron", "Otobrite"}] : k \in 0..MaxOutputs}

\* A match on in_msg with the channels of its arms exchanged.
route_swapped(kind) == IF kind = "Kiss3d" THEN "opencv" ELSE "kiss3d"

\* The match on in_msg: the channel a message is sent to.
route(kind) == IF kind = "Kiss3d" THEN "kiss3d" ELSE "opencv"

InitSplit ==
    /\ cache = EmptyCache
    /\ in_msg = NoMessage
    /\ result = [tag |-> "NotCalled", err |-> "", out_msgs |-> << >>]
    /\ pcd = NoPcd
    /\ points_result = NotCalled
    /\ image = NoImage
    /\ mat_result = NotCalled
    /\ QueriesIdle /\ PipeIdle /\ HeapIdle /\ MergeIdle /\ MeterIdle /\ ServerIdle
    /\ \E kinds \in FuseStreams :
          fuse_stream = [i \in 1..Len(kinds) |-> [kind |-> kinds[i], seq |-> i]]
    /\ split_pc = "loop"
    /\ opencv_ch = << >>
    /\ kiss3d_ch = << >>
    /\ opencv_rx = "open"
    /\ kiss3d_rx = "open"
    /\ opencv_got = << >>
    /\ kiss3d_got = << >>

\* stream.next() gives in_msg and send_async of its channel is awaited: it
\* waits while the channel is full, and the loop breaks when the receiver
\* of the channel is dropped.
SplitSend ==
    /\ split_pc = "loop"
    /\ fuse_stream # << >>
    /\ \/ /\ route(Head(fuse_stream).kind) = "opencv"
          /\ IF opencv_rx = "dropped"
             THEN split_pc' = "done" /\ UNCHANGED <<fuse_stream, opencv_ch>>
             ELSE /\ Len(opencv_ch) < ChannelCap
                  /\ opencv_ch' = Append(opencv_ch, Head(fuse_stream))
                  /\ fuse_stream' = Tail(fuse_stream)
                  /\ UNCHANGED split_pc
          /\ UNCHANGED kiss3d_ch
       \/ /\ route(Head(fuse_stream).kind) = "kiss3d"
          /\ IF kiss3d_rx = "dropped"
             THEN split_pc' = "done" /\ UNCHANGED <<fuse_stream, kiss3d_ch>>
             ELSE /\ Len(kiss3d_ch) < ChannelCap
                  /\ kiss3d_ch' = Append(kiss3d_ch, Head(fuse_stream))
                  /\ fuse_stream' = Tail(fuse_stream)
                  /\ UNCHANGED split_pc
          /\ UNCHANGED opencv_ch
    /\ UNCHANGED <<cache, in_msg, result, decoder_vars, query_vars, pipe_vars, heap_vars, merge_vars, meter_vars, yolo_vars,
                   opencv_rx, kiss3d_rx, opencv_got, kiss3d_got>>

\* stream.next() gives None: the loop ends.
SplitEnd ==
    /\ split_pc = "loop"
    /\ fuse_stream = << >>
    /\ split_pc' = "done"
    /\ UNCHANGED <<cache, in_msg, result, decoder_vars, query_vars, pipe_vars, heap_vars, merge_vars, meter_vars, yolo_vars,
                   fuse_stream, opencv_ch, kiss3d_ch, opencv_rx, kiss3d_rx,
                   opencv_got, kiss3d_got>>

\* A window takes the oldest message of its channel.
SinkRecv ==
    /\ \/ /\ opencv_rx = "open"
          /\ opencv_ch # << >>
          /\ opencv_got' = Append(opencv_got, Head(opencv_ch))
          /\ opencv_ch' = Tail(opencv_ch)
          /\ UNCHANGED <<kiss3d_ch, kiss3d_got>>
       \/ /\ kiss3d_rx = "open"
          /\ kiss3d_ch # << >>
          /\ kiss3d_got' = Append(kiss3d_got, Head(kiss3d_ch))
          /\ kiss3d_ch' = Tail(kiss3d_ch)
          /\ UNCHANGED <<opencv_ch, opencv_got>>
    /\ UNCHANGED <<cache, in_msg, result, decoder_vars, query_vars, pipe_vars, heap_vars, merge_vars, meter_vars, yolo_vars,
                   fuse_stream, split_pc, opencv_rx, kiss3d_rx>>

\* A window ends and drops the receiver of its channel.
SinkDrop ==
    /\ \/ /\ opencv_rx = "open"
          /\ opencv_rx' = "dropped"
          /\ UNCHANGED kiss3d_rx
       \/ /\ kiss3d_rx = "open"
          /\ kiss3d_rx' = "dropped"
          /\ UNCHANGED opencv_rx
    /\ UNCHANGED <<cache, in_msg, result, decoder_vars, query_vars, pipe_vars, heap_vars, merge_vars, meter_vars, yolo_vars,
                   fuse_stream, split_pc, opencv_ch, kiss3d_ch, opencv_got,
                   kiss3d_got>>

NextSplit == SplitSend \/ SplitEnd \/ SinkRecv \/ SinkDrop

SpecSplit == InitSplit /\ [][NextSplit]_vars

\* Whether the receiver of the channel a message of kind kind is sent to
\* is still there.
SinkOpen(kind) ==
    IF route(kind) = "opencv" THEN opencv_rx = "open" ELSE kiss3d_rx = "open"

\* C17: when the consumer of one of the two channels disconnects, the
\* delivery stops for that sink only: the loop of split never stops with
\* a message of the stream left for a sink that is still connected.
C17_SinksIndependent ==
    split_pc = "done"
        => \A i \in 1..Len(fuse_stream) : ~SinkOpen(fuse_stream[i].kind)

(***************************************************************************)
(* PointProjector::map on its own: one projector applied to one vec of     *)
(* points.                                                                 *)
(***************************************************************************)
\* Points on the axis of the camera at the depths -4 to 5 of the LiDAR
\* frame, and three beside it: with the camera at the LiDAR the first is
\* inside the image, the second on its right border and the third outside.
ProjPoints ==
    {MkPoint(0, 0, z, 1) : z \in {-4, -2, 0, 1, 2, 4, 5}}
    \cup {MkPoint(2, 0, 2, 2), MkPoint(4, 0, 2, 3), MkPoint(6, 0, 2, 4)}

\* The Kneron projector with the camera at, 3 behind and 2 before the LiDAR.
ProjProjectors ==
    {[kneron_projector EXCEPT !.camera_params.pose = <<0, 0, tz>>] :
        tz \in {0, -3, 2}}

InitProj ==
    /\ proj_query \in
          [projector : ProjProjectors,
           points : UNION {[1..k -> ProjPoints] : k \in 0..MaxPoints}]
    /\ proj_result = NotCalled
    /\ find_query = << >>
    /\ find_result = NotCalled
    /\ cache = EmptyCache
    /\ in_msg = NoMessage
    /\ result = [tag |-> "NotCalled", err |-> "", out_msgs |-> << >>]
    /\ pcd = NoPcd
    /\ points_result = NotCalled
    /\ image = NoImage
    /\ mat_result = NotCalled
    /\ PipeIdle /\ SplitIdle /\ HeapIdle /\ MergeIdle /\ MeterIdle /\ ServerIdle

\* projector.map(&points).
CallMap ==
    /\ proj_result.tag = "NotCalled"
    /\ proj_result' = Ok(PointProjector_map(proj_query.projector, proj_query.points))
    /\ UNCHANGED <<cache, in_msg, result, decoder_vars, find_query, find_result,
                   proj_query, pipe_vars, split_vars, heap_vars, merge_vars, meter_vars, yolo_vars>>

NextProj == CallMap

SpecProj == InitProj /\ [][NextProj]_vars

\* The depth of a point in the frame of the camera of the projector.
CameraDepth(projector, point) ==
    camera_point(projector.camera_params, PositionValue(point))[3]

\* C20: no point whose depth in the frame of the camera, after the pose of
\* the camera is applied, is 0 or less is in the output of the projection.
C20_NoPointBehindCamera ==
    proj_result.tag = "Ok"
        => \A k \in 1..Len(proj_result.val) :
              /\ CameraDepth(proj_query.projector, proj_result.val[k].pcd_point.elem) > 0
              /\ proj_result.val[k].pcd_point.elem
                    = proj_query.points[proj_result.val[k].pcd_point.idx]

\* A point before the LiDAR and behind the camera was left out and another
\* point of the same vec was projected.
C20_Witness ==
    /\ proj_result.tag = "Ok"
    /\ proj_result.val # << >>
    /\ \E i \in 1..Len(proj_query.points) :
          /\ PositionValue(proj_query.points[i])[3] > 1
          /\ CameraDepth(proj_query.projector, proj_query.points[i]) <= 0

(***************************************************************************)
(* The buffers behind the ARef handles.  ARef::new allocates a buffer; the *)
(* cache and the messages hold handles to buffers, and clone() of a handle *)
(* gives a handle to the same buffer.                                      *)
(***************************************************************************)
\* The most messages built.
MaxHeld == 7

\* The messages sent to the worker whose buffers are followed.
HeapMsgs ==
    { InputMessage("PointCloud2",
                   PointCloud2(XyziFields, 16, EncodePoints(<<PointA>>, 16))),
      InputMessage("PointCloud2",
                   PointCloud2(XyziFields, 16, EncodePoints(<<PointB, PointA>>, 16))),
      InputMessage("PointCloud2",
                   PointCloud2(XyziFields, 12, EncodePoints(<<PointA>>, 16))),
      InputMessage("BBox", Detection2DArray(<<Det1>>)),
      InputMessage("BBox", Detection2DArray(<<Det3, Det2>>)),
      InputMessage("OtobriteImage", Image(1, 2, "RGB8", 0, 6, <<10, 20, 30, 40, 50, 60>>)) }

\* The slots of the cache that hold an ARef.
NoRefs ==
    [points |-> None, kneron_bboxes |-> None, kneron_assocs |-> None,
     otobrite_assocs |-> None]

\* A faulty ARef_new: the buffer the slot refers to is written again.
ARef_reused(hr, slot, val) ==
    IF hr.refs[slot] = None
    THEN [heap |-> Append(hr.heap, val),
          refs |-> [hr.refs EXCEPT ![slot] = Some(Len(hr.heap) + 1)]]
    ELSE [heap |-> [hr.heap EXCEPT ![hr.refs[slot][1]] = val], refs |-> hr.refs]

\* self.cache.slot = Some(ARef::new(val)): a buffer of its own for val,
\* and the handle to it in the slot.
ARef_new(hr, slot, val) ==
    [heap |-> Append(hr.heap, val),
     refs |-> [hr.refs EXCEPT ![slot] = Some(Len(hr.heap) + 1)]]

\* The Vec a slot of the cache c holds.
slot_value(c, slot) ==
    IF slot = "kneron_bboxes" THEN c.kneron_bboxes[1].objects ELSE c[slot][1]

\* The slots an update assigns, in the order of the assignments.
assigned_slots(kind, r) ==
    IF r.tag # "Ok" THEN << >>
    ELSE IF kind = "PointCloud2"
    THEN <<"points", "kneron_assocs", "otobrite_assocs">>
    ELSE IF kind = "BBox"
    THEN <<"kneron_bboxes">>
         \o (IF r.cache.points = None THEN << >> ELSE <<"kneron_assocs">>)
    ELSE << >>

\* The heap and the handles after the slots are assigned from the cache c.
RECURSIVE assign_slots(_, _, _)
assign_slots(hr, slots, c) ==
    IF slots = << >> THEN hr
    ELSE assign_slots(ARef_new(hr, Head(slots), slot_value(c, Head(slots))),
                      Tail(slots), c)

\* The message of a kind as map_msg builds it: clones of the handles of the
\* cache; the Mat of the image is cloned itself.
msg_of_refs(out_msg, r) ==
    IF out_msg.kind = "Kiss3d"
    THEN [kind |-> "Kiss3d", points |-> r.points[1], kneron_assocs |-> r.kneron_assocs]
    ELSE IF out_msg.kind = "Kneron"
    THEN [kind |-> "Kneron", objects |-> r.kneron_bboxes, assocs |-> r.kneron_assocs]
    ELSE [kind |-> "Otobrite", image |-> out_msg.image, assocs |-> r.otobrite_assocs]

\* What an optional handle refers to in the heap h.
deref_opt(h, ref) == IF ref = None THEN None ELSE Some(h[ref[1]])

\* What a message holds, read through its handles in the heap h.
deref_msg(h, m) ==
    IF m.kind = "Kiss3d"
    THEN [kind |-> "Kiss3d", points |-> h[m.points],
          kneron_assocs |-> deref_opt(h, m.kneron_assocs)]
    ELSE IF m.kind = "Kneron"
    THEN [kind |-> "Kneron", objects |-> deref_opt(h, m.objects),
          assocs |-> deref_opt(h, m.assocs)]
    ELSE [kind |-> "Otobrite", image |-> m.image,
          assocs |-> deref_opt(h, m.assocs)]

InitHeap ==
    /\ cache = EmptyCache
    /\ in_msg = NoMessage
    /\ result = [tag |-> "NotCalled", err |-> "", out_msgs |-> << >>]
    /\ pcd = NoPcd
    /\ points_result = NotCalled
    /\ image = NoImage
    /\ mat_result = NotCalled
    /\ QueriesIdle /\ PipeIdle /\ SplitIdle /\ MergeIdle /\ MeterIdle /\ ServerIdle
    /\ heap = << >>
    /\ refs = NoRefs
    /\ held = << >>

\* The messages of r, built from the handles of hr, with what they hold.
Built(r, hr) ==
    /\ heap' = hr.heap
    /\ refs' = hr.refs
    /\ held' = held \o [k \in 1..Len(r.out_msgs) |->
                           [msg |-> msg_of_refs(r.out_msgs[k], hr.refs),
                            snapshot |-> r.out_msgs[k]]]

\* map_msg on the message m, which returns r.
Shared(m, r) ==
    /\ in_msg' = m
    /\ result' = [tag |-> r.tag, err |-> r.err, out_msgs |-> r.out_msgs]
    /\ cache' = r.cache
    /\ Built(r, assign_slots([heap |-> heap, refs |-> refs],
                             assigned_slots(m.kind, r), r.cache))

RecvShared ==
    /\ Len(held) + 3 <= MaxHeld
    /\ \E m \in HeapMsgs : Shared(m, map_msg(cache, m))
    /\ UNCHANGED <<decoder_vars, query_vars, pipe_vars, split_vars, merge_vars, meter_vars, yolo_vars>>

NextHeap == RecvShared

SpecHeap == InitHeap /\ [][NextHeap]_vars

\* C21: a buffer of points, of detections or of associations never changes
\* once it is in the cache or in a message: a later update gives the slot
\* of the cache a buffer of its own, and every message built still holds
\* what it held when it was built.
C21_PublishedBuffersImmutable ==
    /\ [](/\ \A k \in 1..Len(held) : deref_msg(heap, held[k].msg) = held[k].snapshot
          /\ deref_opt(heap, refs.points) = cache.points
          /\ deref_opt(heap, refs.kneron_assocs) = cache.kneron_assocs
          /\ deref_opt(heap, refs.otobrite_assocs) = cache.otobrite_assocs
          /\ (cache.kneron_bboxes # None
                => deref_opt(heap, refs.kneron_bboxes)
                      = Some(cache.kneron_bboxes[1].objects)))
    /\ [][/\ SubSeq(heap', 1, Len(heap)) = heap
          /\ \A slot \in DOMAIN refs :
                refs'[slot] # refs[slot] => refs'[slot][1] > Len(heap)]_vars

\* A point cloud was replaced by another one after a message with the
\* first one was built.
C21_Witness ==
    \E k \in 1..Len(held) :
        /\ held[k].msg.kind = "Kiss3d"
        /\ refs.points # None
        /\ held[k].msg.points # refs.points[1]
        /\ heap[held[k].msg.points] # heap[refs.points[1]]

C23_NoAbnormalTermination ==
    result.tag \in {"NotCalled", "Ok", "Err"}

(***************************************************************************)
(* The outputs of each kind of input.                                      *)
(***************************************************************************)
\* The kinds of the messages out_msgs, in order.
Kinds(out_msgs) == [k \in 1..Len(out_msgs) |-> out_msgs[k].kind]

\* C24: the outputs of an input that was processed are fixed by its kind:
\* a point cloud gives a Kiss3d, a Kneron and an Otobrite message, an
\* image one Otobrite message, a detection set a Kneron message with a
\* Kiss3d message before it if and only if a point cloud is cached.
C24_OutputsByInputKind ==
    /\ result.tag = "Ok" /\ in_msg.kind = "PointCloud2"
          => Kinds(result.out_msgs) = <<"Kiss3d", "Kneron", "Otobrite">>
    /\ result.tag = "Ok" /\ in_msg.kind = "OtobriteImage"
          => Kinds(result.out_msgs) = <<"Otobrite">>
    /\ result.tag = "Ok" /\ in_msg.kind = "BBox"
          => Kinds(result.out_msgs)
                = IF cache.points # None THEN <<"Kiss3d", "Kneron">>
                  ELSE <<"Kneron">>
    /\ result.tag # "Ok" => result.out_msgs = << >>

\* A detection set was processed with a point cloud and an image cached.
C24_Witness ==
    /\ result.tag = "Ok"
    /\ in_msg.kind = "BBox"
    /\ cache.points # None
    /\ cache.otobrite_image # None
    /\ Len(result.out_msgs) = 2

(***************************************************************************)
(* The detection set and its index.                                        *)
(***************************************************************************)
\* The entries of the index are the handles to the objects, one each.
IndexOf(bboxes) ==
    /\ Len(bboxes.index.rtree) = Len(bboxes.objects)
    /\ {bboxes.index.rtree[i].rect : i \in 1..Len(bboxes.index.rtree)}
          = {ElemRef(bboxes.objects, i) : i \in 1..Len(bboxes.objects)}

\* C25: after a detection set of k detections the cache holds exactly the
\* k objects of the message, in its order and none of the set before, and
\* in every state the index holds exactly the objects of the cached set.
C25_DetectionSetAndIndex ==
    /\ cache.kneron_bboxes # None => IndexOf(cache.kneron_bboxes[1])
    /\ in_msg.kind = "BBox"
          => /\ cache.kneron_bboxes # None
             /\ cache.kneron_bboxes[1].objects
                   = [i \in 1..Len(in_msg.msg.detections) |->
                         object_of_detection(in_msg.msg.detections[i])]

\* A set of two detections is cached and indexed.
C25_Witness ==
    /\ in_msg.kind = "BBox"
    /\ Len(in_msg.msg.detections) = 2
    /\ cache.kneron_bboxes # None
    /\ Len(cache.kneron_bboxes[1].index.rtree) = 2
    /\ cache.kneron_assocs # None

(***************************************************************************)
(* The pairs of the projection.                                            *)
(***************************************************************************)
\* The pixel of a point under a projector.
PixelOf(projector, point) ==
    pinhole(projector.camera_params,
            camera_point(projector.camera_params, PositionValue(point)))

\* The point is more than 1 from the origin of the point cloud.
FarEnough(p) == p[1] * p[1] + p[2] * p[2] + p[3] * p[3] > 1

\* The point passes the three filters: the distance from the origin, the
\* depth in the frame of the camera, the pixel inside the image.
PassesAll(projector, point) ==
    /\ FarEnough(PositionValue(point))
    /\ CameraDepth(projector, point) > 1
    /\ in_image(projector, PixelOf(projector, point))

\* C26: the projection gives one pair for exactly the points that pass all
\* filters, in their order, and the pixel of every pair is the projection
\* of the point of that pair.
C26_PairsOfPassingPoints ==
    proj_result.tag = "Ok"
        => /\ [k \in 1..Len(proj_result.val) |-> proj_result.val[k].pcd_point.idx]
                 = SelectSeq(Indices(proj_query.points),
                             LAMBDA i : PassesAll(proj_query.projector,
                                                  proj_query.points[i]))
           /\ \A k \in 1..Len(proj_result.val) :
                 /\ proj_result.val[k].pcd_point.elem
                       = proj_query.points[proj_result.val[k].pcd_point.idx]
                 /\ proj_result.val[k].img_point
                       = PixelOf(proj_query.projector,
                                 proj_result.val[k].pcd_point.elem)

\* A point outside the image was filtered out and the point after it, on
\* the right border of the image, was paired with its own pixel.
C26_Witness ==
    /\ proj_result.tag = "Ok"
    /\ Len(proj_query.points) = 2
    /\ Len(proj_result.val) = 1
    /\ proj_result.val[1].pcd_point.idx = 2
    /\ proj_result.val[1].img_point = <<8, 4>>
    /\ \E i \in 1..Len(proj_query.points) :
          /\ CameraDepth(proj_query.projector, proj_query.points[i]) > 1
          /\ ~in_image(proj_query.projector,
                       PixelOf(proj_query.projector, proj_query.points[i]))

(***************************************************************************)
(* The delivery of the outputs.                                            *)
(***************************************************************************)
\* C27: every output the worker has put in the output channel is yielded
\* by the output stream in the end, when the consumer keeps polling, also
\* the outputs still in the channel when the input stream has ended and
\* the worker has exited.
C27_EveryOutputYielded ==
    \A n \in 1..(3 * MaxInputs) :
        (Len(emitted) >= n) ~> (Len(delivered) >= n)

(***************************************************************************)
(* The messages as snapshots.                                              *)
(***************************************************************************)
\* The handle ref is a handle to an element of the vector vec.
ElementOf(ref, vec) ==
    /\ ref.idx \in 1..Len(vec)
    /\ vec[ref.idx] = ref.elem

\* Every point of the associations is a point of the message.
Kiss3dConsistent(m) ==
    m.kneron_assocs # None
        => \A k \in 1..Len(m.kneron_assocs[1]) :
              ElementOf(m.kneron_assocs[1][k].pcd_point, m.points)

\* Every object of the associations is an object of the message.
KneronConsistent(m) ==
    m.assocs # None
        => \A k \in 1..Len(m.assocs[1]) :
              m.assocs[1][k].object # None
                 => /\ m.objects # None
                    /\ ElementOf(m.assocs[1][k].object[1], m.objects[1])

\* C28: every output message is a consistent snapshot: in a Kiss3d message
\* the point of every association is an element of the point cloud of the
\* message, and in a Kneron message the object of every association that
\* has one is an element of the detection set of the message.
C28_MessagesConsistent ==
    \A k \in 1..Len(result.out_msgs) :
        /\ result.out_msgs[k].kind = "Kiss3d" => Kiss3dConsistent(result.out_msgs[k])
        /\ result.out_msgs[k].kind = "Kneron" => KneronConsistent(result.out_msgs[k])

\* A detection set was processed under a point cloud: the Kiss3d and the
\* Kneron message carry an association with an object.
C28_Witness ==
    /\ in_msg.kind = "BBox"
    /\ Len(result.out_msgs) = 2
    /\ result.out_msgs[1].kneron_assocs # None
    /\ result.out_msgs[2].assocs # None
    /\ \E k \in 1..Len(result.out_msgs[2].assocs[1]) :
          result.out_msgs[2].assocs[1][k].object # None

(***************************************************************************)
(* The bounded channels of the worker.                                     *)
(***************************************************************************)
\* forward_future waits: it keeps a message and the input channel is full.
Suspended == forward_item # None /\ ~has_room(input_ch)

\* Every message forward_future took is where it belongs: the messages put
\* into the input channel are those the worker received followed by those
\* in the channel, and the message forward_future keeps is the next one.
AllAccounted ==
    /\ Len(enqueued) = Len(processed) + Len(input_ch)
    /\ \A k \in 1..Len(input_ch) :
          /\ input_ch[k].id = Len(processed) + k
          /\ input_ch[k].msg = enqueued[Len(processed) + k]
    /\ forward_item # None => forward_item[1].id = Len(enqueued) + 1

\* The message forward_future keeps leaves it for the input channel only,
\* and it stays where it is while the channel is full.
KeptUntilSent ==
    /\ Suspended => forward_item' = forward_item
    /\ forward_item # None /\ forward_item' # forward_item
          => /\ input_ch' = Append(input_ch, forward_item[1])
             /\ enqueued' = Append(enqueued, forward_item[1].msg)

\* C29: the input and the output channel of the worker never hold more
\* than 2 messages each; with the input channel full forward_future waits
\* with the message it took and sends it later; and while the worker runs
\* no message forward_future took from the input stream is dropped.
C29_QueuesBoundedNothingDropped ==
    /\ [](Len(input_ch) <= 2 /\ Len(output_ch) <= 2)
    /\ [](worker_pc # "exited" => AllAccounted)
    /\ [][worker_pc # "exited" => KeptUntilSent]_vars
    /\ Suspended ~> (forward_item = None /\ worker_pc # "exited")

\* forward_future waits with the third message behind a full input
\* channel, which holds the two messages before it in their order.
C29_Witness ==
    /\ Suspended
    /\ worker_pc = "recv"
    /\ Len(input_ch) = ChannelCap
    /\ forward_item[1].id = ChannelCap + 1
    /\ AllAccounted

(***************************************************************************)
(* The merged input stream: select_all over the three subscriptions.       *)
(* select_all keeps its streams in a FuturesUnordered, whose queue of      *)
(* woken streams is first in, first out; of the subscriptions only what    *)
(* main uses is modelled, a stream of the messages in their order of       *)
(* arrival.                                                                *)
(***************************************************************************)
\* The most messages that arrive.
MaxArrivals == 4

\* The streams in the order main gives them to select_all.
Subscriptions == <<"pcd_stream", "kneron_det_stream", "otobrite_img_stream">>

SubscriptionSet == {Subscriptions[k] : k \in 1..Len(Subscriptions)}

\* Whether the stream s is in the queue q of woken streams.
IsQueued(q, s) == \E k \in 1..Len(q) : q[k] = s

\* The waker of a stream: a stream not yet queued joins the queue at its
\* back.
wake(q, s) == IF IsQueued(q, s) THEN q ELSE Append(q, s)

\* SelectAll::poll_next: the woken streams are polled from the front of the
\* queue; a stream with no message is pending and leaves the queue; the
\* first stream with a message yields its oldest one and is pushed to the
\* back of the queue.
RECURSIVE poll_next(_, _)
poll_next(srcs, q) ==
    IF q = << >>
    THEN [item |-> None, sources |-> srcs, ready |-> q]
    ELSE IF srcs[Head(q)] = << >>
    THEN poll_next(srcs, Tail(q))
    ELSE [item |-> Some(Head(srcs[Head(q)])),
          sources |-> [srcs EXCEPT ![Head(q)] = Tail(@)],
          ready |-> Append(Tail(q), Head(q))]

\* select_all([pcd_stream, kneron_det_stream, otobrite_img_stream]): every
\* stream is queued to be polled once.
InitMerge ==
    /\ cache = EmptyCache
    /\ in_msg = NoMessage
    /\ result = [tag |-> "NotCalled", err |-> "", out_msgs |-> << >>]
    /\ pcd = NoPcd
    /\ points_result = NotCalled
    /\ image = NoImage
    /\ mat_result = NotCalled
    /\ QueriesIdle /\ PipeIdle /\ SplitIdle /\ HeapIdle /\ MeterIdle /\ ServerIdle
    /\ sources = [s \in SubscriptionSet |-> << >>]
    /\ ready = Subscriptions
    /\ arrived = << >>
    /\ merged = << >>

\* The number of messages of the stream s among those of h.
CountOf(h, s) == Cardinality({k \in 1..Len(h) : h[k].source = s})

\* A message arrives on a subscription, which wakes its stream.
Arrive ==
    /\ Len(arrived) < MaxArrivals
    /\ \E s \in SubscriptionSet :
          /\ sources' = [sources EXCEPT ![s] =
                            Append(@, [source |-> s, seq |-> CountOf(arrived, s) + 1])]
          /\ arrived' = Append(arrived, [source |-> s, seq |-> CountOf(arrived, s) + 1])
          /\ ready' = wake(ready, s)
    /\ UNCHANGED <<cache, in_msg, result, decoder_vars, query_vars, pipe_vars,
                   split_vars, heap_vars, meter_vars, yolo_vars, merged>>

\* forward_future polls input_stream.
MergePoll ==
    /\ ready # << >>
    /\ sources' = poll_next(sources, ready).sources
    /\ ready' = poll_next(sources, ready).ready
    /\ merged' = merged \o poll_next(sources, ready).item
    /\ UNCHANGED <<cache, in_msg, result, decoder_vars, query_vars, pipe_vars,
                   split_vars, heap_vars, meter_vars, yolo_vars, arrived>>

NextMerge == Arrive \/ MergePoll

SpecMerge == InitMerge /\ [][NextMerge]_vars

\* The place of the message m in the history h.
PlaceIn(h, m) == CHOOSE k \in 1..Len(h) : h[k] = m

\* The messages of one stream are yielded in the order they arrived in.
SourceOrderKept ==
    \A i, j \in 1..Len(merged) :
        i < j /\ merged[i].source = merged[j].source
            => merged[i].seq < merged[j].seq

\* No message is yielded after a message that arrived later than it.
ArrivalOrderKept ==
    \A i, j \in 1..Len(merged) :
        i < j => PlaceIn(arrived, merged[i]) < PlaceIn(arrived, merged[j])

\* Every message yielded has arrived, none is yielded twice, and a message
\* is waiting or yielded.
MergeLosesNothing ==
    /\ \A i \in 1..Len(merged) : \E k \in 1..Len(arrived) : arrived[k] = merged[i]
    /\ \A i, j \in 1..Len(merged) : i # j => merged[i] # merged[j]
    /\ \A s \in SubscriptionSet :
          CountOf(merged, s) + Len(sources[s]) = CountOf(arrived, s)

\* C30: input_stream yields the messages of the three subscriptions in the
\* order of their arrival: the messages of one subscription in their order,
\* and no message after one that arrived later on another subscription.
C30_MergedInArrivalOrder ==
    /\ SourceOrderKept
    /\ ArrivalOrderKept

(***************************************************************************)
(* The two channels of split.                                              *)
(***************************************************************************)
\* The messages split has sent to the OpenCV channel and to the Kiss3d
\* channel: those the window has taken followed by those in the channel.
OpencvSent == opencv_got \o opencv_ch

Kiss3dSent == kiss3d_got \o kiss3d_ch

\* The messages of h are in the order they had in the stream.
InStreamOrder(h) == \A i, j \in 1..Len(h) : i < j => h[i].seq < h[j].seq

\* The places in the stream of the messages of h.
PlacesOf(h) == {h[k].seq : k \in 1..Len(h)}

\* C31: split sends every Otobrite and Kneron message it takes from the
\* stream to the OpenCV channel and every Kiss3d message to the Kiss3d
\* channel, never to the other one; each channel has its messages in the
\* order of the stream; and with both windows receiving the loop ends only
\* when the stream is over.
C31_EachMessageToItsChannel ==
    /\ \A k \in 1..Len(OpencvSent) : OpencvSent[k].kind \in {"Otobrite", "Kneron"}
    /\ \A k \in 1..Len(Kiss3dSent) : Kiss3dSent[k].kind = "Kiss3d"
    /\ InStreamOrder(OpencvSent) /\ InStreamOrder(Kiss3dSent)
    /\ PlacesOf(OpencvSent) \cap PlacesOf(Kiss3dSent) = {}
    /\ PlacesOf(OpencvSent) \cup PlacesOf(Kiss3dSent)
          = 1..(Len(OpencvSent) + Len(Kiss3dSent))
    /\ \A k \in 1..Len(fuse_stream) :
          fuse_stream[k].seq = Len(OpencvSent) + Len(Kiss3dSent) + k
    /\ split_pc = "done" /\ opencv_rx = "open" /\ kiss3d_rx = "open"
          => fuse_stream = << >>

\* A Kneron, a Kiss3d and an Otobrite message went through split: the
\* OpenCV window got the first and the third, the Kiss3d window the second.
C31_Witness ==
    /\ split_pc = "done"
    /\ Len(opencv_got) = 2
    /\ opencv_got[1] = [kind |-> "Kneron", seq |-> 1]
    /\ opencv_got[2] = [kind |-> "Otobrite", seq |-> 3]
    /\ kiss3d_got = <<[kind |-> "Kiss3d", seq |-> 2]>>

(***************************************************************************)
(* A window that does not receive.  The future of split runs whenever it   *)
(* can, no receiver is dropped, and which of the windows keeps receiving   *)
(* is left open.                                                           *)
(***************************************************************************)
NextSplitKept == SplitSend \/ SplitEnd \/ SinkRecv

FairSplit ==
    /\ InitSplit /\ [][NextSplitKept]_vars
    /\ WF_vars(SplitSend) /\ WF_vars(SplitEnd)

\* The OpenCV window takes a message; the Kiss3d window takes a message.
OpencvRecv == SinkRecv /\ opencv_got' # opencv_got

Kiss3dRecv == SinkRecv /\ kiss3d_got' # kiss3d_got

\* The message at the place n of the stream has been taken by its window.
Taken(n) == n \in PlacesOf(opencv_got) \cup PlacesOf(kiss3d_got)

\* The message at the place n of the stream is one for the Kiss3d window;
\* it is one for the OpenCV window.
ForKiss3d(n) ==
    \E k \in 1..Len(fuse_stream) :
        fuse_stream[k].seq = n /\ route(fuse_stream[k].kind) = "kiss3d"

ForOpencv(n) ==
    \E k \in 1..Len(fuse_stream) :
        fuse_stream[k].seq = n /\ route(fuse_stream[k].kind) = "opencv"

\* C32: a window that does not receive does not keep the messages from the
\* other one: when the Kiss3d window keeps receiving, every Kiss3d message
\* of the stream reaches it, whatever the OpenCV window does, also with the
\* OpenCV channel full; and the same with the windows exchanged.
C32_SlowSinkBlocksNoOther ==
    /\ WF_vars(Kiss3dRecv) => \A n \in 1..MaxOutputs : ForKiss3d(n) ~> Taken(n)
    /\ WF_vars(OpencvRecv) => \A n \in 1..MaxOutputs : ForOpencv(n) ~> Taken(n)

(***************************************************************************)
(* The whole pipeline of main: forward_future, the worker and the output   *)
(* stream of start, then split and the two windows.  The future of split   *)
(* owns output_stream, so output_stream and forward_future are polled      *)
(* while split waits in stream.next() and not while it waits in            *)
(* send_async.  Of a window the model keeps the taking of the messages     *)
(* from its channel.  input_stream never ends and no receiver is dropped.  *)
(***************************************************************************)
InitDemo ==
    /\ cache = EmptyCache
    /\ in_msg = NoMessage
    /\ result = [tag |-> "NotCalled", err |-> "", out_msgs |-> << >>]
    /\ pcd = NoPcd
    /\ points_result = NotCalled
    /\ image = NoImage
    /\ mat_result = NotCalled
    /\ QueriesIdle /\ HeapIdle /\ MergeIdle /\ MeterIdle /\ ServerIdle
    /\ stream_ended = FALSE
    /\ forward_item = None
    /\ input_ch = << >>
    /\ worker_pc = "recv"
    /\ worker_out = << >>
    /\ output_ch = << >>
    /\ consumer = "polling"
    /\ enqueued = << >>
    /\ processed = << >>
    /\ emitted = << >>
    /\ delivered = << >>
    /\ fuse_stream = << >>
    /\ split_pc = "loop"
    /\ opencv_ch = << >>
    /\ kiss3d_ch = << >>
    /\ opencv_rx = "open"
    /\ kiss3d_rx = "open"
    /\ opencv_got = << >>
    /\ kiss3d_got = << >>

\* split waits in stream.next(): it holds no message of the stream.
SplitAtNext == split_pc = "loop" /\ fuse_stream = << >>

\* The messages input_stream yields in the whole pipeline: a point cloud,
\* a detection set and an image map_msg refuses.
DemoMsgs ==
    { InputMessage("PointCloud2",
                   PointCloud2(XyziFields, 16, EncodePoints(<<PointA>>, 16))),
      InputMessage("BBox", Detection2DArray(<<Det1>>)),
      InputMessage("OtobriteImage", Image(1, 1, "RGB8", 0, 3, <<10, 20, 30>>)) }

\* forward_future, polled by the stream.next() of split, takes a message
\* of input_stream.
DemoTake ==
    /\ SplitAtNext
    /\ ForwardTake
    /\ forward_item'[1].msg \in DemoMsgs

\* stream.next() of split: output_stream yields the oldest message of the
\* output channel, which is in_msg until its send_async is over.
SplitNext ==
    /\ SplitAtNext
    /\ consumer = "polling"
    /\ output_ch # << >>
    /\ fuse_stream' = <<[kind |-> Head(output_ch).msg.kind, seq |-> Len(delivered) + 1]>>
    /\ delivered' = Append(delivered, Head(output_ch))
    /\ output_ch' = Tail(output_ch)
    /\ UNCHANGED <<cache, in_msg, result, decoder_vars, query_vars, heap_vars, merge_vars, meter_vars, yolo_vars,
                   stream_ended, forward_item, input_ch, worker_pc, worker_out,
                   consumer, enqueued, processed, emitted,
                   split_pc, opencv_ch, kiss3d_ch, opencv_rx, kiss3d_rx,
                   opencv_got, kiss3d_got>>

NextDemo ==
    \/ DemoTake \/ ForwardSend \/ WorkerRecv \/ WorkerSend
    \/ SplitNext \/ SplitSend \/ SinkRecv

SpecDemo == InitDemo /\ [][NextDemo]_vars

\* The worker is a thread of its own; the futures of main are joined in one
\* task, which polls each of them when it is woken; both windows keep
\* receiving.
FairDemo ==
    /\ SpecDemo
    /\ WorkerRecvFair
    /\ WF_vars(ForwardSend) /\ WF_vars(WorkerSend)
    /\ WF_vars(SplitNext) /\ WF_vars(SplitSend)
    /\ WF_vars(OpencvRecv) /\ WF_vars(Kiss3dRecv)

\* The message number n of input_stream has been processed by the worker
\* and every output of it has been taken by its window.
Handled(n) ==
    /\ Len(processed) >= n
    /\ \A k \in 1..Len(worker_out) : worker_out[k].input > n
    /\ \A k \in 1..Len(emitted) : emitted[k].input <= n => Taken(k)

\* C33: the pipeline does not deadlock: with input_stream open and both
\* windows receiving, forward_future is ready for the next message of
\* input_stream again and again, and every message it took is processed by
\* the worker in the end, with every output of it taken by its window.
C33_PipelineKeepsGoing ==
    /\ []<>(SplitAtNext /\ forward_item = None)
    /\ \A n \in 1..MaxInputs :
          (forward_item # None /\ forward_item[1].id = n) ~> Handled(n)

\* MaxInputs messages went through the pipeline, with outputs for both
\* windows.
C33_Witness ==
    /\ SplitAtNext
    /\ Handled(MaxInputs)
    /\ Len(opencv_got) >= 2
    /\ kiss3d_got # << >>

(***************************************************************************)
(* The UYVY arm of image_to_mat.                                           *)
(***************************************************************************)
\* The pixels the UYVY arm writes for the data: set_pixel is called with
\* 2 * chunk_idx and 2 * chunk_idx + 1 for every chunk of chunks_exact(4),
\* once each.
WrittenUYVY(data) == {2 * k + d : k \in 0..((Len(data) \div 4) - 1), d \in {0, 1}}

\* The Vec3b of the samples y, cb, cr.
Vec3bOf(y, cb, cr) == Bgr(ycbcr_to_rgb(y, cb, cr))

\* C34: of a UYVY image that is decoded, the group k of 4 bytes, read as
\* [Cb, Y1, Cr, Y2], sets the pixel 2k from (Y1, Cb, Cr) and the pixel
\* 2k + 1 from (Y2, Cb, Cr), and every one of the width x height pixels of
\* the output is written, once.
C34_UyvyGroupsFillTheImage ==
    mat_result.tag = "Ok" /\ image.encoding = "UYVY"
        => /\ \A k \in 0..((Len(image.data) \div 4) - 1) :
                 /\ mat_result.val.data[2 * k + 1]
                       = Vec3bOf(image.data[4 * k + 2], image.data[4 * k + 1],
                                 image.data[4 * k + 3])
                 /\ mat_result.val.data[2 * k + 2]
                       = Vec3bOf(image.data[4 * k + 4], image.data[4 * k + 1],
                                 image.data[4 * k + 3])
           /\ WrittenUYVY(image.data) = 0..(image.width * image.height - 1)

\* The part of C34 on the groups alone, and on the images with an even
\* number of pixels.
UyvyGroupsSetTheirPixels ==
    mat_result.tag = "Ok" /\ image.encoding = "UYVY"
        => /\ \A k \in 0..((Len(image.data) \div 4) - 1) :
                 /\ mat_result.val.data[2 * k + 1]
                       = Vec3bOf(image.data[4 * k + 2], image.data[4 * k + 1],
                                 image.data[4 * k + 3])
                 /\ mat_result.val.data[2 * k + 2]
                       = Vec3bOf(image.data[4 * k + 4], image.data[4 * k + 1],
                                 image.data[4 * k + 3])
           /\ (image.width * image.height) % 2 = 0
                 => WrittenUYVY(image.data) = 0..(image.width * image.height - 1)

(***************************************************************************)
(* The one layout of the decoded image.                                    *)
(***************************************************************************)
\* The buffer with the first and the third byte of every 3 bytes
\* exchanged; the bytes after the last full 3 stay.
SwapFirstAndThird(data) ==
    [k \in 1..Len(data) |->
        IF k > 3 * (Len(data) \div 3) THEN data[k]
        ELSE IF k % 3 = 1 THEN data[k + 2]
        ELSE IF k % 3 = 0 THEN data[k - 2]
        ELSE data[k]]

\* The BGR8 image of the same picture as the RGB8 image img.
AsBGR8(img) ==
    Image(img.height, img.width, "BGR8", img.is_bigendian, img.step,
          SwapFirstAndThird(img.data))

\* The Vec3b of a Mat at a row and a column, both from 0.
At2d(mat, row, col) == mat.data[row * mat.cols + col + 1]

\* C35: every image that is decoded gives a Mat of height x width pixels
\* of 3 bytes; an RGB8 image decodes to what the BGR8 image of the same
\* picture decodes to; and the pixel i of an RGB8 or BGR8 image is at the
\* row i div width and the column i mod width.
C35_OneOutputLayout ==
    /\ mat_result.tag = "Ok"
          => /\ mat_result.val.rows = image.height
             /\ mat_result.val.cols = image.width
             /\ Len(mat_result.val.data) = image.height * image.width
             /\ \A k \in 1..Len(mat_result.val.data) : Len(mat_result.val.data[k]) = 3
    /\ mat_result.tag # "NotCalled" /\ image.encoding = "RGB8"
          => mat_result = image_to_mat(AsBGR8(image))
    /\ mat_result.tag = "Ok" /\ image.encoding = "BGR8"
          => \A i \in 0..(image.height * image.width - 1) :
                At2d(mat_result.val, i \div image.width, i % image.width)
                    = SubSeq(image.data, 3 * i + 1, 3 * i + 3)
    /\ mat_result.tag = "Ok" /\ image.encoding = "RGB8"
          => \A i \in 0..(image.height * image.width - 1) :
                At2d(mat_result.val, i \div image.width, i % image.width)
                    = <<image.data[3 * i + 3], image.data[3 * i + 2],
                        image.data[3 * i + 1]>>

\* An RGB8 image of MaxSide x MaxSide pixels was decoded; the first and the
\* third byte of its first pixel differ.
C35_Witness ==
    /\ mat_result.tag = "Ok"
    /\ image.encoding = "RGB8"
    /\ image.height = MaxSide /\ image.width = MaxSide
    /\ image.data[1] # image.data[3]
    /\ At2d(mat_result.val, 0, 0) = <<image.data[3], image.data[2], image.data[1]>>

(***************************************************************************)
(* RateMeter: bump is called by the streams of the subscriptions and the   *)
(* stream of rate_stream takes the count at every interval.  Both are one  *)
(* atomic operation on count, so a step of the model is one call.          *)
(***************************************************************************)
\* The most calls of bump, and the most intervals.
MaxBumps == 4

MaxTicks == 3

\* AtomicUsize::fetch_add(val, SeqCst): the value stored.
fetch_add(value, val) == value + val

\* A faulty swap: the count is read and not reset.
swap_kept(value, val) == [old |-> value, new |-> value]

\* AtomicUsize::swap(val, SeqCst): the value before and the value stored.
swap(value, val) == [old |-> value, new |-> val]

\* RateMeter::new(interval).
InitMeter ==
    /\ cache = EmptyCache
    /\ in_msg = NoMessage
    /\ result = [tag |-> "NotCalled", err |-> "", out_msgs |-> << >>]
    /\ pcd = NoPcd
    /\ points_result = NotCalled
    /\ image = NoImage
    /\ mat_result = NotCalled
    /\ QueriesIdle /\ PipeIdle /\ SplitIdle /\ HeapIdle /\ MergeIdle /\ ServerIdle
    /\ meter_count = 0
    /\ reported = << >>
    /\ bumped = 0

\* RateMeter::bump, from any thread.
Bump ==
    /\ bumped < MaxBumps
    /\ meter_count' = fetch_add(meter_count, 1)
    /\ bumped' = bumped + 1
    /\ UNCHANGED <<cache, in_msg, result, decoder_vars, query_vars, pipe_vars,
                   split_vars, heap_vars, merge_vars, yolo_vars, reported>>

\* The interval of rate_stream is over: the closure of map takes the count
\* and leaves 0.
Tick ==
    /\ Len(reported) < MaxTicks
    /\ meter_count' = swap(meter_count, 0).new
    /\ reported' = Append(reported, swap(meter_count, 0).old)
    /\ UNCHANGED <<cache, in_msg, result, decoder_vars, query_vars, pipe_vars,
                   split_vars, heap_vars, merge_vars, yolo_vars, bumped>>

NextMeter == Bump \/ Tick

SpecMeter == InitMeter /\ [][NextMeter]_vars

\* The sum of the numbers of s.
RECURSIVE SumOf(_)
SumOf(s) == IF s = << >> THEN 0 ELSE Head(s) + SumOf(Tail(s))

\* C36: however the calls of bump and the swaps of rate_stream interleave,
\* no call of bump is lost or counted twice: the counts taken at the
\* intervals so far and the count now add up to the number of calls.
C36_EveryBumpCountedOnce ==
    SumOf(reported) + meter_count = bumped

\* Calls of bump before, between and after two intervals.
C36_Witness ==
    /\ bumped = MaxBumps
    /\ Len(reported) >= 2
    /\ reported[1] > 0
    /\ reported[2] > 0
    /\ meter_count > 0

(***************************************************************************)
(* The server of the Kneron bounding boxes: a YoloResult is the bytes of   *)
(* one connection, taken as they are, and the node calls boxes() on it.    *)
(***************************************************************************)
\* protocol.rs: the length of YoloResult.boxes.
BOXES_MAX_NUM == 80

\* The largest box_count received, but for one far beyond the array.
MaxBoxCount == 82

\* The values of the field box_count in the bytes received.
BoxCounts == 0..MaxBoxCount \cup {2147483647}

\* The YoloResults received: every entry of boxes stands for itself.
YoloResults ==
    {[class_count |-> 1, box_count |-> n,
      boxes |-> [i \in 1..BOXES_MAX_NUM |-> [slot |-> i]]] : n \in BoxCounts}

\* YoloResult::boxes: &self.boxes[0..count], which panics when count is
\* beyond the length of the array.
boxes(r) ==
    IF r.box_count > Len(r.boxes)
    THEN Panic("range end index out of range for slice")
    ELSE Ok(SubSeq(r.boxes, 1, r.box_count))

InitServer ==
    /\ cache = EmptyCache
    /\ in_msg = NoMessage
    /\ result = [tag |-> "NotCalled", err |-> "", out_msgs |-> << >>]
    /\ pcd = NoPcd
    /\ points_result = NotCalled
    /\ image = NoImage
    /\ mat_result = NotCalled
    /\ QueriesIdle /\ PipeIdle /\ SplitIdle /\ HeapIdle /\ MergeIdle /\ MeterIdle
    /\ yolo = None
    /\ boxes_result = NotCalled

\* Server::recv: read_exact fills the bytes and transmute makes them a
\* YoloResult.
ServerRecv ==
    /\ yolo = None
    /\ \E r \in YoloResults : yolo' = Some(r)
    /\ UNCHANGED <<cache, in_msg, result, decoder_vars, query_vars, pipe_vars,
                   split_vars, heap_vars, merge_vars, meter_vars, boxes_result>>

\* main: result.boxes().
CallBoxes ==
    /\ yolo # None
    /\ boxes_result.tag = "NotCalled"
    /\ boxes_result' = boxes(yolo[1])
    /\ UNCHANGED <<cache, in_msg, result, decoder_vars, query_vars, pipe_vars,
                   split_vars, heap_vars, merge_vars, meter_vars, yolo>>

NextServer == ServerRecv \/ CallBoxes

SpecServer == InitServer /\ [][NextServer]_vars

\* What boxes() returned is the front of the array, box_count long.
FrontOfBoxes ==
    /\ boxes_result.tag = "Ok"
    /\ Len(boxes_result.val) = yolo[1].box_count
    /\ \A k \in 1..Len(boxes_result.val) :
          k <= BOXES_MAX_NUM /\ boxes_result.val[k] = yolo[1].boxes[k]

\* C37: for every YoloResult received, whatever its box_count, boxes()
\* returns exactly box_count boxes from the front of the array of 80 and
\* reads nothing outside the array.
C37_BoxesReturnsBoxCount ==
    boxes_result.tag # "NotCalled" => FrontOfBoxes

\* The part of C37 that holds: boxes() never returns anything from outside
\* the array, and with a box_count of at most 80 it returns the front of
\* the array, box_count long.
BoxesWithinArray ==
    boxes_result.tag # "NotCalled"
        => /\ boxes_result.tag = "Ok" => FrontOfBoxes
           /\ yolo[1].box_count <= BOXES_MAX_NUM => boxes_result.tag = "Ok"

=============================================================================
